---- MODULE Spec2Model ----
(***************************************************************************)
(* x86-64 hierarchical page-table manager (X86PageTableBase): the          *)
(* recursive range walkers AddMapping / RemoveMapping / UpdateMapping /    *)
(* GetMapping, SplitLargePage, the CacheLineFlusher and the top-level API. *)
(*                                                                         *)
(* Addresses are byte addresses.  The geometry is scaled: a table has      *)
(* NO_OF_PT_ENTRIES entries and a leaf page PAGE_SIZE bytes, so that       *)
(* page_size(level) = PAGE_SIZE * NO_OF_PT_ENTRIES^level.  Alignment tests *)
(* written with masks in the source (x & (ps - 1)) are written with % here,*)
(* which is the same function for every power-of-two ps.                   *)
(*                                                                         *)
(* A table pointer is the number of the frame that holds the table; the    *)
(* frame lies at physical address frame * PAGE_SIZE.  NULL is the null     *)
(* table pointer.                                                          *)
(***************************************************************************)
EXTENDS Integers, Sequences, FiniteSets, TLC

\* ---------------------------------------------------------------- bounds
NO_OF_PT_ENTRIES == 2
PAGE_SIZE == 2
PTES_PER_LINE == 2
MaxOps == 2
MaxAllocFail == 2
MaxOpsDeep == 3
MaxAllocFailDeep == 3
MaxOpsLarge == 3
MaxAllocFailLarge == 1
MaxOpsArgs == 2
NumThreads == 2
MaxThreadCalls == 2

\* ---------------------------------------------------------------- levels
PT_L == 0
PD_L == 1
PDP_L == 2
PML4_L == 3

NULL == -1
ROOT == 0

VARIABLES
    mem,        \* frame number -> table: [0..N-1 -> PTE]; every frame ever allocated
    mmu,        \* frames in state VM_PAGE_STATE_MMU (allocated, not freed)
    pages_,     \* X86PageTableBase::pages_
    flushes,    \* needs_cache_flushes() of this address space
    last,       \* the last top-level call: operation, arguments, status, events,
                \* the tables and pages_ as they were when it was made, and
                \* (prev) the call before it when that was made on the same range
    nops,       \* number of top-level calls made
    halted,     \* the kernel has panicked
    lock_,      \* X86PageTableBase::lock_: the thread that holds it, or NoThread
    thr,        \* thread -> its position in a top-level call, the call, its
                \* return value, and the return value of the serial execution
    serial      \* the tables and pages_ of the execution of the threads' calls
                \* one after another, in the order the lock was acquired

vars == <<mem, mmu, pages_, flushes, last, nops, halted, lock_, thr, serial>>

\* ------------------------------------------------------ level geometry
RECURSIVE Pow(_, _)
Pow(b, e) == IF e = 0 THEN 1 ELSE b * Pow(b, e - 1)

page_size(level) == PAGE_SIZE * Pow(NO_OF_PT_ENTRIES, level)

page_aligned(level, vaddr) == vaddr % page_size(level) = 0

vaddr_to_index(level, vaddr) == (vaddr \div page_size(level)) % NO_OF_PT_ENTRIES

lower_level(level) == level - 1

IS_PAGE_ALIGNED(x) == x % PAGE_SIZE = 0

\* ------------------------------------------------------------ PTEs
\* A PTE is the word  paddr | flags | P : the present bit p, the large bit
\* ps, the remaining flag bits, and the frame field addr.
ZeroPte == [p |-> FALSE, ps |-> FALSE, bits |-> {}, addr |-> 0]

IS_PAGE_PRESENT(pte) == pte.p
IS_LARGE_PAGE(pte) == pte.ps

\* pte & frame mask of the level: the frame field rounded down to the level.
paddr_from_pte(level, pte) == pte.addr - (pte.addr % page_size(level))

\* pte & X86_LARGE_FLAGS_MASK: every flag bit of the entry, PS and P included.
LargeFlagsOf(pte) == [ps |-> pte.ps, bits |-> pte.bits]

\* Table pointers: the table in frame f lies at physical address f * PAGE_SIZE.
X86_VIRT_TO_PHYS(table) == table * PAGE_SIZE
X86_PHYS_TO_VIRT(pa) == pa \div PAGE_SIZE

get_next_table_from_entry(entry) ==
    IF ~IS_PAGE_PRESENT(entry) \/ IS_LARGE_PAGE(entry)
    THEN NULL
    ELSE X86_PHYS_TO_VIRT(paddr_from_pte(PT_L, entry))

\* ------------------------------------------------------------ flag policy
MmuR == {"R"}
MmuRW == {"R", "W"}
MmuFlags == {MmuR, MmuRW}

terminal_flags(level, mmu_flags) ==
    [ps |-> FALSE,
     bits |-> (IF "W" \in mmu_flags THEN {"RW"} ELSE {})
              \cup (IF "X" \in mmu_flags THEN {} ELSE {"NX"})]

intermediate_flags == [ps |-> FALSE, bits |-> {"RW", "U"}]

split_flags(level, flags) ==
    IF level = PD_L THEN [flags EXCEPT !.ps = FALSE] ELSE flags

pt_flags_to_mmu_flags(pte, level) ==
    {"R"} \cup (IF "RW" \in pte.bits THEN {"W"} ELSE {})
          \cup (IF "NX" \in pte.bits THEN {} ELSE {"X"})

supports_page_size(level) == level \in {PD_L, PDP_L}

top_level == PML4_L

WithPS(flags) == [flags EXCEPT !.ps = TRUE]

\* ------------------------------------------------------------ machine
\* The machine state threaded through one top-level call:
\*   mem, mmu, pages : as the variables
\*   fails           : the allocations of this call that fail (by ordinal)
\*   nalloc          : allocations attempted so far in this call
\*   clf             : the stack of live CacheLineFlusher objects (dirty_line_)
\*   trace           : the events of the call, in order
\*   asserts         : the DEBUG_ASSERTs that did not hold
\*   nullcall        : a walker was entered with a null table
\*   nullderef       : a null table was read
\*   frames          : the stack of walker frames that have not returned, each
\*                     with its function, its level and the number of
\*                     iterations its loop has begun
\*   maxiters        : the largest number of iterations of any frame so far
\*   cursors         : the values the cursor of a walker frame has had, each
\*                     with the cursor the frame started from
NoLine == <<NULL, 0>>

Machine(fails) ==
    [mem |-> mem, mmu |-> mmu, pages |-> pages_, fails |-> fails, nalloc |-> 0,
     clf |-> <<>>, trace |-> <<>>, asserts |-> {}, nullcall |-> FALSE,
     nullderef |-> FALSE, flushes |-> flushes, frames |-> <<>>, maxiters |-> 0,
     cursors |-> {}]

Emit(m, e) == [m EXCEPT !.trace = Append(@, e)]

\* A walker frame is entered, and left when the walker returns.
PushFrame(m, fn, level) ==
    [m EXCEPT !.frames = Append(@, [fn |-> fn, level |-> level, iters |-> 0])]
PopFrame(m) == [m EXCEPT !.frames = SubSeq(@, 1, Len(@) - 1)]

\* The frames of walker fn that have not returned.
FramesOf(m, fn) == {k \in DOMAIN m.frames : m.frames[k].fn = fn}

\* The cursor of the innermost walker frame, which started from
\* start_cursor, is new_cursor: at the head of an iteration of its loop
\* ("head"), after an update ("update") or when the frame returns ("return").
\* depth is the number of frames of this walker on the stack.
NoteCursor(m, at, start_cursor, new_cursor) ==
    [m EXCEPT !.cursors = @ \cup {[fn |-> m.frames[Len(m.frames)].fn,
                                   level |-> m.frames[Len(m.frames)].level,
                                   depth |-> Cardinality(
                                       FramesOf(m, m.frames[Len(m.frames)].fn)),
                                   at |-> at,
                                   start |-> start_cursor, new |-> new_cursor]}]

\* The loop of the innermost walker frame begins one more iteration.
Iterate(m, start_cursor, new_cursor) ==
    [NoteCursor(m, "head", start_cursor, new_cursor)
       EXCEPT !.frames[Len(m.frames)].iters = @ + 1,
              !.maxiters = IF m.frames[Len(m.frames)].iters + 1 > @
                           THEN m.frames[Len(m.frames)].iters + 1 ELSE @]

DebugAssert(m, cond, label) ==
    IF cond THEN m ELSE [m EXCEPT !.asserts = @ \cup {label}]

\* *e for e = table + index.  A null table has no memory behind it: the read
\* is undefined; the outcome modelled here is the one where it reads zero.
ReadPte(m, table, index) ==
    IF table = NULL THEN ZeroPte ELSE m.mem[table][index]

NoteRead(m, table) ==
    IF table = NULL THEN [m EXCEPT !.nullderef = TRUE] ELSE m

WritePte(m, table, index, pte) ==
    IF table = NULL THEN [m EXCEPT !.nullderef = TRUE]
    ELSE [m EXCEPT !.mem[table][index] = pte]

\* ------------------------------------------------------------ CacheLineFlusher
LineOf(table, index) == <<table, index \div PTES_PER_LINE>>

\* CacheLineFlusher::CacheLineFlusher
\* A flusher is known by the length of the trace when it was made.
ClfNew(m) ==
    [m EXCEPT !.clf = Append(@, [id |-> Len(m.trace), dirty_line_ |-> NoLine,
                                 perform_invalidations_ |-> m.flushes])]

ClfDirty(m) == m.clf[Len(m.clf)].dirty_line_

ClfId(m) == m.clf[Len(m.clf)].id

\* A faulty ForceFlush: the dirty line is never written back.
ForceFlushNothing(m) == m

\* A faulty ForceFlush: the line is written back whether or not the flusher
\* performs invalidations.
ForceFlushAlways(m) ==
    IF ClfDirty(m) # NoLine
    THEN [Emit(m, [ev |-> "clflush", line |-> ClfDirty(m), id |-> ClfId(m)])
            EXCEPT !.clf[Len(m.clf)].dirty_line_ = NoLine]
    ELSE m

\* CacheLineFlusher::ForceFlush
ForceFlush(m) ==
    IF ClfDirty(m) # NoLine /\ m.clf[Len(m.clf)].perform_invalidations_
    THEN [Emit(m, [ev |-> "clflush", line |-> ClfDirty(m), id |-> ClfId(m)])
            EXCEPT !.clf[Len(m.clf)].dirty_line_ = NoLine]
    ELSE m

\* A faulty FlushPtEntry: the dirty line is flushed whichever line the entry
\* is in.
FlushPtEntryAlways(m, table, index) ==
    [ForceFlush(m) EXCEPT !.clf[Len(m.clf)].dirty_line_ = LineOf(table, index)]

\* CacheLineFlusher::FlushPtEntry
FlushPtEntry(m, table, index) ==
    IF LineOf(table, index) # ClfDirty(m)
    THEN [ForceFlush(m) EXCEPT !.clf[Len(m.clf)].dirty_line_ = LineOf(table, index)]
    ELSE m

\* A faulty destructor: the flusher goes away with its line still dirty.
ClfDeleteDirty(m) == [m EXCEPT !.clf = SubSeq(@, 1, Len(@) - 1)]

\* CacheLineFlusher::~CacheLineFlusher
ClfDelete(m) ==
    LET f == ForceFlush(m)
    IN [f EXCEPT !.clf = SubSeq(@, 1, Len(@) - 1)]

\* ------------------------------------------------------------ MappingCursor
\* A faulty SkipEntry: the amount skipped is not clamped to the size left.
SkipEntryUnclamped(c, level) ==
    [c EXCEPT !.size = @ - (page_size(level) - (c.vaddr % page_size(level))),
              !.vaddr = @ + (page_size(level) - (c.vaddr % page_size(level)))]

\* A faulty SkipEntry: the size of the cursor is not reduced.
SkipEntryKeepsSize(c, level) ==
    [c EXCEPT !.vaddr = @ + (page_size(level) - (c.vaddr % page_size(level)))]

\* MappingCursor::SkipEntry
SkipEntry(c, level) ==
    LET ps == page_size(level)
        skipped_size == ps - (c.vaddr % ps)
        sz == IF c.size > skipped_size THEN skipped_size ELSE c.size
    IN [c EXCEPT !.size = @ - sz, !.vaddr = @ + sz]

\* RemoveMapping / UpdateMapping: new_cursor->vaddr += n; new_cursor->size -= n
Advance(c, n) == [c EXCEPT !.vaddr = @ + n, !.size = @ - n]

\* A faulty AdvanceP: the physical address of the cursor is left behind.
AdvancePKeepsPaddr(c, n) == [c EXCEPT !.vaddr = @ + n, !.size = @ - n]

\* AddMapping: new_cursor->paddr += n; new_cursor->vaddr += n; new_cursor->size -= n
AdvanceP(c, n) == [c EXCEPT !.paddr = @ + n, !.vaddr = @ + n, !.size = @ - n]

\* ------------------------------------------------------------ PTE stores
\* A faulty TlbInvalidatePage: nothing is invalidated.
TlbInvalidatePageNever(m, level, vaddr, was_terminal) == m

TlbInvalidatePage(m, level, vaddr, was_terminal) ==
    Emit(m, [ev |-> "tlb", level |-> level, vaddr |-> vaddr, term |-> was_terminal])

StorePte(m, level, vaddr, table, index, new) ==
    LET olde == ReadPte(m, table, index)
        m1 == WritePte(m, table, index, new)
        m2 == Emit(m1, [ev |-> "store", table |-> table, index |-> index,
                        level |-> level, vaddr |-> vaddr,
                        old |-> IS_PAGE_PRESENT(olde), new |-> IS_PAGE_PRESENT(new),
                        oldtable |-> IF level = PT_L THEN NULL
                                     ELSE get_next_table_from_entry(olde),
                        id |-> ClfId(m)])
    IN m2

\* A faulty UpdateEntry: the TLB is invalidated whatever the entry held.
UpdateEntryInvalidatesAlways(m, level, vaddr, table, index, paddr, flags, was_terminal) ==
    TlbInvalidatePage(
        ForceFlush(FlushPtEntry(
            StorePte(m, level, vaddr, table, index,
                     [p |-> TRUE, ps |-> flags.ps, bits |-> flags.bits, addr |-> paddr]),
            table, index)),
        level, vaddr, was_terminal)

\* X86PageTableBase::UpdateEntry
UpdateEntry(m, level, vaddr, table, index, paddr, flags, was_terminal) ==
    LET m0 == DebugAssert(m, IS_PAGE_ALIGNED(paddr), "UpdateEntry:IS_PAGE_ALIGNED(paddr)")
        olde == ReadPte(m, table, index)
        new == [p |-> TRUE, ps |-> flags.ps, bits |-> flags.bits, addr |-> paddr]
        m1 == FlushPtEntry(StorePte(m0, level, vaddr, table, index, new), table, index)
    IN IF IS_PAGE_PRESENT(olde)
       THEN TlbInvalidatePage(ForceFlush(m1), level, vaddr, was_terminal)
       ELSE m1

\* X86PageTableBase::UnmapEntry
UnmapEntry(m, level, vaddr, table, index, was_terminal) ==
    LET olde == ReadPte(m, table, index)
        m1 == FlushPtEntry(StorePte(m, level, vaddr, table, index, ZeroPte), table, index)
    IN IF IS_PAGE_PRESENT(olde)
       THEN TlbInvalidatePage(ForceFlush(m1), level, vaddr, was_terminal)
       ELSE m1

\* ------------------------------------------------------------ frame source
ZX_OK == "ZX_OK"
ZX_ERR_NO_MEMORY == "ZX_ERR_NO_MEMORY"
ZX_ERR_ALREADY_EXISTS == "ZX_ERR_ALREADY_EXISTS"
ZX_ERR_INVALID_ARGS == "ZX_ERR_INVALID_ARGS"
ZX_ERR_NOT_FOUND == "ZX_ERR_NOT_FOUND"

ZeroTable == [i \in 0..(NO_OF_PT_ENTRIES - 1) |-> ZeroPte]

\* pmm_alloc_kpage: some free frame; the lowest-numbered one is taken.
FreeFrame(m) == CHOOSE f \in 1..(Cardinality(m.mmu) + 1) : f \notin m.mmu

\* A faulty _map_alloc_page: the frame is taken although NULL is returned.
map_alloc_page_keeps_frame(m) ==
    IF m.nalloc + 1 \in m.fails
    THEN [m |-> Emit([m EXCEPT !.nalloc = @ + 1, !.mmu = @ \cup {FreeFrame(m)}],
                     [ev |-> "alloc", table |-> NULL]),
          page |-> NULL]
    ELSE [m |-> Emit([m EXCEPT !.nalloc = @ + 1,
                               !.mmu = @ \cup {FreeFrame(m)},
                               !.mem = [g \in DOMAIN m.mem \cup {FreeFrame(m)} |->
                                          IF g = FreeFrame(m) THEN ZeroTable ELSE m.mem[g]]],
                     [ev |-> "alloc", table |-> FreeFrame(m)]),
          page |-> FreeFrame(m)]

\* _map_alloc_page: [m, page]; page = NULL when the allocator has no memory.
map_alloc_page(m) ==
    LET n == m.nalloc + 1
        f == FreeFrame(m)
    IN IF n \in m.fails
       THEN [m |-> Emit([m EXCEPT !.nalloc = n], [ev |-> "alloc", table |-> NULL]),
             page |-> NULL]
       ELSE [m |-> Emit([m EXCEPT !.nalloc = n,
                                  !.mmu = @ \cup {f},
                                  !.mem = [g \in DOMAIN m.mem \cup {f} |->
                                             IF g = f THEN ZeroTable ELSE m.mem[g]]],
                        [ev |-> "alloc", table |-> f]),
             page |-> f]

\* A faulty FreeTable: the frame of the table is not given back.
FreeTableLeaks(m, table) == m

\* paddr_to_vm_page + the two DEBUG_ASSERTs + pmm_free_page of RemoveMapping.
FreeTable(m, table) ==
    LET m1 == DebugAssert(m, table # NULL, "RemoveMapping:page")
        m2 == DebugAssert(m1, table \in m.mmu, "RemoveMapping:page->state==MMU")
        m3 == IF table = NULL THEN [m2 EXCEPT !.nullderef = TRUE] ELSE m2
    IN Emit([m3 EXCEPT !.mmu = @ \ {table}], [ev |-> "free", table |-> table])

\* ------------------------------------------------------------ SplitLargePage
RECURSIVE SplitFill(_, _, _, _, _, _, _)

\* A faulty SplitFill: new_paddr is not advanced from one sub-entry to the next.
SplitFillSameFrame(m, table, level, i, new_vaddr, new_paddr, flags) ==
    IF i = NO_OF_PT_ENTRIES
    THEN [m |-> m, new_vaddr |-> new_vaddr]
    ELSE SplitFill(UpdateEntry(m, lower_level(level), new_vaddr, table, i,
                               new_paddr, flags, FALSE),
                   table, level, i + 1,
                   new_vaddr + page_size(lower_level(level)),
                   new_paddr, flags)

\* SplitLargePage, lines 241-249: the loop that fills the new table.
SplitFill(m, table, level, i, new_vaddr, new_paddr, flags) ==
    IF i = NO_OF_PT_ENTRIES
    THEN [m |-> m, new_vaddr |-> new_vaddr]
    ELSE SplitFill(UpdateEntry(m, lower_level(level), new_vaddr, table, i,
                               new_paddr, flags, FALSE),
                   table, level, i + 1,
                   new_vaddr + page_size(lower_level(level)),
                   new_paddr + page_size(lower_level(level)), flags)

\* A faulty SplitLargePageInstall: the new table is not counted in pages_.
SplitLargePageInstallUncounted(m, level, vaddr, table, index, page) ==
    UpdateEntry(m, level, vaddr, table, index, X86_VIRT_TO_PHYS(page),
                intermediate_flags, TRUE)

\* SplitLargePage, lines 252-254: the large entry is replaced by the entry of
\* the new table `page`, and the table is counted.
SplitLargePageInstall(m, level, vaddr, table, index, page) ==
    [UpdateEntry(m, level, vaddr, table, index, X86_VIRT_TO_PHYS(page),
                 intermediate_flags, TRUE)
       EXCEPT !.pages = @ + 1]

\* X86PageTableBase::SplitLargePage(level, vaddr, pte), pte = table + index.
\* The event of a split, failed or not, records the large entry (pte, at
\* `index` of `parent`), and the tables, the frames in use and pages_ as they
\* were when SplitLargePage was entered (the trace was then `from` long) and
\* as it left them.
SplitLargePage(m, level, vaddr, table, index) ==
    LET pte == ReadPte(m, table, index)
        Split(done, page) ==
            Emit(done, [ev |-> "split", level |-> level, vaddr |-> vaddr,
                        table |-> page, pte |-> pte, before |-> m.mem,
                        after |-> done.mem, parent |-> table, index |-> index,
                        from |-> Len(m.trace),
                        mmu_before |-> m.mmu, mmu_after |-> done.mmu,
                        pages_before |-> m.pages, pages_after |-> done.pages])
        Filled(f, page) ==
            ClfDelete(Split(
                SplitLargePageInstall(
                    DebugAssert(f.m, f.new_vaddr = vaddr + page_size(level),
                                "SplitLargePage:new_vaddr"),
                    level, vaddr, table, index, page),
                page))
        Allocated(a) ==
            IF a.page = NULL
            THEN [m |-> Emit(a.m, [ev |-> "splitfail", level |-> level, vaddr |-> vaddr,
                                   pte |-> pte, before |-> m.mem, after |-> a.m.mem,
                                   parent |-> table, index |-> index,
                                   from |-> Len(m.trace),
                                   mmu_before |-> m.mmu, mmu_after |-> a.m.mmu,
                                   pages_before |-> m.pages,
                                   pages_after |-> a.m.pages]),
                  status |-> ZX_ERR_NO_MEMORY]
            ELSE [m |-> Filled(SplitFill(DebugAssert(ClfNew(a.m), page_aligned(level, vaddr),
                                                     "SplitLargePage:page_aligned"),
                                         a.page, level, 0, vaddr,
                                         paddr_from_pte(level, pte),
                                         split_flags(level, LargeFlagsOf(pte))),
                                a.page),
                  status |-> ZX_OK]
    IN Allocated(map_alloc_page(
           DebugAssert(DebugAssert(m, level # PT_L, "SplitLargePage:level!=PT_L"),
                       IS_PAGE_PRESENT(pte) /\ IS_LARGE_PAGE(pte),
                       "SplitLargePage:present&&large")))

\* ------------------------------------------------------------ GetMapping
\* X86PageTableBase::GetMappingL0
GetMappingL0(tables, table, vaddr) ==
    LET index == vaddr_to_index(PT_L, vaddr)
        e == tables[table][index]
    IN IF ~IS_PAGE_PRESENT(e)
       THEN [status |-> ZX_ERR_NOT_FOUND]
       ELSE [status |-> ZX_OK, ret_level |-> PT_L, table |-> table, index |-> index]

\* X86PageTableBase::GetMapping
RECURSIVE GetMapping(_, _, _, _)
GetMapping(tables, table, vaddr, level) ==
    IF level = PT_L THEN GetMappingL0(tables, table, vaddr)
    ELSE LET index == vaddr_to_index(level, vaddr)
             pt_val == tables[table][index]
         IN IF ~IS_PAGE_PRESENT(pt_val) THEN [status |-> ZX_ERR_NOT_FOUND]
            ELSE IF IS_LARGE_PAGE(pt_val)
            THEN [status |-> ZX_OK, ret_level |-> level, table |-> table, index |-> index]
            ELSE GetMapping(tables, get_next_table_from_entry(pt_val), vaddr,
                            lower_level(level))

\* X86PageTableBase::QueryVaddr on the tables `tables`
QueryVaddr(tables, vaddr) ==
    LET g == GetMapping(tables, ROOT, vaddr, top_level)
    IN IF g.status # ZX_OK THEN [status |-> g.status]
       ELSE LET e == tables[g.table][g.index]
            IN [status |-> ZX_OK,
                paddr |-> paddr_from_pte(g.ret_level, e)
                            + (vaddr % page_size(g.ret_level)),
                mmu_flags |-> pt_flags_to_mmu_flags(e, g.ret_level)]

\* ------------------------------------------------------------ walkers
\* Entry of a walker: DEBUG_ASSERT(table), and the record of the call, with
\* the number of frames of this walker (depth) and of all walkers (stack)
\* that are then on the stack.
Enter(m, fn, table, level, cursor) ==
    LET m1 == DebugAssert(m, table # NULL, "DEBUG_ASSERT(table)")
        m2 == IF table = NULL THEN [m1 EXCEPT !.nullcall = TRUE] ELSE m1
    IN Emit(PushFrame(m2, fn, level),
            [ev |-> "call", fn |-> fn, table |-> table, level |-> level,
             vaddr |-> cursor.vaddr, size |-> cursor.size,
             depth |-> Cardinality(FramesOf(m, fn)) + 1,
             stack |-> Len(m.frames) + 1])

\* DEBUG_ASSERT(new_cursor->size <= start_cursor.size).  size is a size_t: a
\* subtraction that goes below zero wraps to a value above every size.
CursorAsserts(m, new_cursor, start_cursor, fn) ==
    DebugAssert(NoteCursor(m, "update", start_cursor, new_cursor),
                new_cursor.size >= 0 /\ new_cursor.size <= start_cursor.size,
                fn \o ":new_cursor->size<=start_cursor.size")

\* A faulty UnmapWholeTable: the size of the request is not looked at.
UnmapWholeTableAligned(level, new_cursor) ==
    page_aligned(level, new_cursor.vaddr)

\* RemoveMapping, lines 400-401: the request covers the whole lower table.
UnmapWholeTable(level, new_cursor) ==
    page_aligned(level, new_cursor.vaddr) /\ new_cursor.size >= page_size(level)

\* A faulty TableIsEmpty: a lower table is never found empty.
TableIsEmptyNever(m, next_table) == FALSE

\* RemoveMapping, lines 403-411: the scan of the lower table.
TableIsEmpty(m, next_table) ==
    \A lower_idx \in 0..(NO_OF_PT_ENTRIES - 1) :
        ~IS_PAGE_PRESENT(ReadPte(m, next_table, lower_idx))

\* A faulty CoversLargePage: the size of the request is not looked at.
CoversLargePageAligned(level, new_cursor) ==
    page_aligned(level, new_cursor.vaddr)

\* RemoveMapping / UpdateMapping, lines 367 and 641: the request covers the
\* whole large page.
CoversLargePage(level, new_cursor) ==
    page_aligned(level, new_cursor.vaddr) /\ new_cursor.size >= page_size(level)

\* X86PageTableBase::RemoveMappingL0, the loop
RECURSIVE RemoveMappingL0Loop(_, _, _, _, _, _)
RemoveMappingL0Loop(m, table, start_cursor, new_cursor, index, unmapped) ==
    IF index = NO_OF_PT_ENTRIES \/ new_cursor.size = 0
    THEN [m |-> m, cursor |-> new_cursor, unmapped |-> unmapped]
    ELSE LET m0 == NoteRead(Iterate(m, start_cursor, new_cursor), table)
             present == IS_PAGE_PRESENT(ReadPte(m0, table, index))
             m1 == IF present
                   THEN UnmapEntry(m0, PT_L, new_cursor.vaddr, table, index, TRUE)
                   ELSE m0
             c1 == Advance(new_cursor, PAGE_SIZE)
         IN RemoveMappingL0Loop(CursorAsserts(m1, c1, start_cursor, "RemoveMappingL0"),
                                table, start_cursor, c1, index + 1,
                                unmapped \/ present)

\* A faulty RemoveMappingL0: the pages are cleared and false is returned.
RemoveMappingL0Quiet(m, table, start_cursor) ==
    [RemoveMappingL0Loop(ClfNew(m), table, start_cursor, start_cursor,
                         vaddr_to_index(PT_L, start_cursor.vaddr), FALSE)
       EXCEPT !.m = ClfDelete(@), !.unmapped = FALSE]

\* X86PageTableBase::RemoveMappingL0
RemoveMappingL0(m, table, start_cursor) ==
    LET m0 == DebugAssert(m, IS_PAGE_ALIGNED(start_cursor.size),
                          "RemoveMappingL0:IS_PAGE_ALIGNED(size)")
    IN [RemoveMappingL0Loop(ClfNew(m0), table, start_cursor, start_cursor,
                            vaddr_to_index(PT_L, start_cursor.vaddr), FALSE)
          EXCEPT !.m = ClfDelete(@)]

RECURSIVE RemoveMapping(_, _, _, _)

\* A faulty RemoveMappingSplit: the large page is unmapped instead of split.
RemoveMappingSplitUnmaps(m, table, level, start_cursor, new_cursor, index, unmapped) ==
    [m |-> UnmapEntry(m, level, new_cursor.vaddr, table, index, TRUE),
     cursor |-> SkipEntry(new_cursor, level), unmapped |-> TRUE]

\* RemoveMapping, lines 376-388: a large page the request covers only in
\* part is split; when the split fails the whole large page is unmapped and
\* the cursor skips the entry.  Control then reaches line 391 in either case.
RemoveMappingSplit(m, table, level, start_cursor, new_cursor, index, unmapped) ==
    LET ps == page_size(level)
        page_vaddr == new_cursor.vaddr - (new_cursor.vaddr % ps)
        c1 == SkipEntry(new_cursor, level)
        After(sp) ==
            IF sp.status # ZX_OK
            THEN [m |-> CursorAsserts(UnmapEntry(sp.m, level, new_cursor.vaddr, table,
                                                 index, TRUE),
                                      c1, start_cursor, "RemoveMapping"),
                  cursor |-> c1, unmapped |-> TRUE]
            ELSE [m |-> sp.m, cursor |-> new_cursor, unmapped |-> unmapped]
    IN After(SplitLargePage(m, level, page_vaddr, table, index))

\* RemoveMapping, lines 391-434: recurse into the lower table of entry
\* `index`, free the lower table when it may be freed, take the residual cursor.
RemoveMappingLower(m, table, level, start_cursor, new_cursor, index, unmapped) ==
    LET next_table == get_next_table_from_entry(ReadPte(m, table, index))
        Released(m0) ==
            Emit(m0, [ev |-> "release", level |-> level, table |-> next_table,
                      fast |-> UnmapWholeTable(level, new_cursor),
                      empty |-> TableIsEmpty(m0, next_table)])
        After(r) ==
            LET unmap_page_table ==
                    \/ UnmapWholeTable(level, new_cursor)
                    \/ (r.unmapped /\ TableIsEmpty(r.m, next_table))
                m1 == IF unmap_page_table
                      THEN [FreeTable(UnmapEntry(Released(r.m), level,
                                                 new_cursor.vaddr, table, index,
                                                 FALSE),
                                      next_table)
                              EXCEPT !.pages = @ - 1]
                      ELSE r.m
                m2 == CursorAsserts(m1, r.cursor, start_cursor, "RemoveMapping")
            IN [m |-> DebugAssert(m2, r.cursor.size = 0
                                      \/ page_aligned(level, r.cursor.vaddr),
                                  "RemoveMapping:size==0||page_aligned"),
                cursor |-> r.cursor,
                unmapped |-> unmapped \/ unmap_page_table]
    IN After(RemoveMapping(m, next_table, lower_level(level), new_cursor))

\* X86PageTableBase::RemoveMapping, one iteration of the loop (lines 355-434)
RemoveMappingStep(m, table, level, start_cursor, new_cursor, index, unmapped) ==
    LET m0 == NoteRead(m, table)
        pt_val == ReadPte(m0, table, index)
        Lower(pre) ==
            RemoveMappingLower(pre.m, table, level, start_cursor, pre.cursor, index,
                               pre.unmapped)
    IN IF ~IS_PAGE_PRESENT(pt_val)
       THEN LET c1 == SkipEntry(new_cursor, level)
            IN [m |-> CursorAsserts(m0, c1, start_cursor, "RemoveMapping"),
                cursor |-> c1, unmapped |-> unmapped]
       ELSE IF IS_LARGE_PAGE(pt_val) /\ CoversLargePage(level, new_cursor)
       THEN LET c1 == Advance(new_cursor, page_size(level))
            IN [m |-> CursorAsserts(UnmapEntry(m0, level, new_cursor.vaddr, table,
                                               index, TRUE),
                                    c1, start_cursor, "RemoveMapping"),
                cursor |-> c1, unmapped |-> TRUE]
       ELSE Lower(IF IS_LARGE_PAGE(pt_val)
                  THEN RemoveMappingSplit(m0, table, level, start_cursor, new_cursor,
                                          index, unmapped)
                  ELSE [m |-> m0, cursor |-> new_cursor, unmapped |-> unmapped])

\* X86PageTableBase::RemoveMapping, the loop (line 354)
RECURSIVE RemoveMappingLoop(_, _, _, _, _, _, _)
RemoveMappingLoop(m, table, level, start_cursor, new_cursor, index, unmapped) ==
    LET Continue(s) ==
            RemoveMappingLoop(s.m, table, level, start_cursor, s.cursor, index + 1,
                              s.unmapped)
    IN IF index = NO_OF_PT_ENTRIES \/ new_cursor.size = 0
       THEN [m |-> m, cursor |-> new_cursor, unmapped |-> unmapped]
       ELSE Continue(RemoveMappingStep(Iterate(m, start_cursor, new_cursor), table, level, start_cursor, new_cursor,
                                       index, unmapped))

\* X86PageTableBase::RemoveMapping; the value returned is recorded.
RemoveMapping(m, table, level, start_cursor) ==
    LET Leave(r) ==
            [r EXCEPT !.m = PopFrame(Emit(NoteCursor(@, "return", start_cursor, r.cursor),
                                          [ev |-> "ret", fn |-> "RemoveMapping",
                                           table |-> table, level |-> level,
                                           unmapped |-> r.unmapped]))]
        Body(m0) == Leave(
            IF level = PT_L
            THEN RemoveMappingL0(m0, table, start_cursor)
            ELSE [RemoveMappingLoop(ClfNew(m0), table, level, start_cursor,
                                    start_cursor,
                                    vaddr_to_index(level, start_cursor.vaddr), FALSE)
                    EXCEPT !.m = ClfDelete(@)])
    IN Body(Enter(m, "RemoveMapping", table, level, start_cursor))

\* ------------------------------------------------------------ AddMapping
\* X86PageTableBase::AddMappingL0, the loop
RECURSIVE AddMappingL0Loop(_, _, _, _, _, _)
AddMappingL0Loop(m, table, mmu_flags, start_cursor, new_cursor, index) ==
    IF index = NO_OF_PT_ENTRIES \/ new_cursor.size = 0
    THEN [m |-> m, cursor |-> new_cursor, ret |-> ZX_OK]
    ELSE LET m0 == NoteRead(Iterate(m, start_cursor, new_cursor), table)
         IN IF IS_PAGE_PRESENT(ReadPte(m0, table, index))
            THEN [m |-> m0, cursor |-> new_cursor, ret |-> ZX_ERR_ALREADY_EXISTS]
            ELSE LET m1 == UpdateEntry(m0, PT_L, new_cursor.vaddr, table, index,
                                       new_cursor.paddr,
                                       terminal_flags(PT_L, mmu_flags), FALSE)
                     c1 == AdvanceP(new_cursor, PAGE_SIZE)
                 IN AddMappingL0Loop(CursorAsserts(m1, c1, start_cursor, "AddMappingL0"),
                                     table, mmu_flags, start_cursor, c1, index + 1)

\* X86PageTableBase::AddMappingL0
AddMappingL0(m, table, mmu_flags, start_cursor) ==
    LET m0 == DebugAssert(m, IS_PAGE_ALIGNED(start_cursor.size),
                          "AddMappingL0:IS_PAGE_ALIGNED(size)")
    IN [AddMappingL0Loop(ClfNew(m0), table, mmu_flags, start_cursor, start_cursor,
                         vaddr_to_index(PT_L, start_cursor.vaddr))
          EXCEPT !.m = ClfDelete(@)]

\* A faulty LargePageCandidate: a large page is never installed.
LargePageCandidateNever(level, pt_val, new_cursor) == FALSE

\* A faulty LargePageCandidate: the alignment of paddr is not looked at.
LargePageCandidateAnyFrame(level, pt_val, new_cursor) ==
    /\ supports_page_size(level)
    /\ ~IS_PAGE_PRESENT(pt_val)
    /\ page_aligned(level, new_cursor.vaddr)
    /\ new_cursor.size >= page_size(level)

\* AddMapping, lines 526-529: the entry is a candidate for a new large page.
LargePageCandidate(level, pt_val, new_cursor) ==
    /\ supports_page_size(level)
    /\ ~IS_PAGE_PRESENT(pt_val)
    /\ page_aligned(level, new_cursor.vaddr)
    /\ page_aligned(level, new_cursor.paddr)
    /\ new_cursor.size >= page_size(level)

\* AddMapping, lines 496-507: the range the abort auto-call unmaps.
AbortCursor(start_cursor, new_cursor) ==
    [start_cursor EXCEPT !.size = @ - new_cursor.size]

RECURSIVE AddMapping(_, _, _, _, _)

\* AddMapping, lines 538-560: make the lower table if there is none, and
\* recurse into it.
AddMappingLower(m, table, mmu_flags, level, start_cursor, new_cursor, index) ==
    LET After(r) ==
            [m |-> CursorAsserts(r.m, r.cursor, start_cursor, "AddMapping"),
             cursor |-> r.cursor, ret |-> r.ret]
        Recurse(pre) ==
            IF ~pre.ok
            THEN [m |-> pre.m, cursor |-> new_cursor, ret |-> ZX_ERR_NO_MEMORY]
            ELSE After(AddMapping(pre.m,
                                  get_next_table_from_entry(ReadPte(pre.m, table, index)),
                                  mmu_flags, lower_level(level), new_cursor))
        Allocated(a) ==
            IF a.page = NULL
            THEN [m |-> a.m, ok |-> FALSE]
            ELSE [m |-> [UpdateEntry(a.m, level, new_cursor.vaddr, table, index,
                                     X86_VIRT_TO_PHYS(a.page), intermediate_flags,
                                     FALSE)
                           EXCEPT !.pages = @ + 1],
                  ok |-> TRUE]
    IN Recurse(IF IS_PAGE_PRESENT(ReadPte(m, table, index))
               THEN [m |-> m, ok |-> TRUE]
               ELSE Allocated(map_alloc_page(m)))

\* X86PageTableBase::AddMapping, one iteration of the loop (lines 518-561)
AddMappingStep(m, table, mmu_flags, level, start_cursor, new_cursor, index) ==
    LET m0 == NoteRead(m, table)
        pt_val == ReadPte(m0, table, index)
    IN IF IS_PAGE_PRESENT(pt_val) /\ IS_LARGE_PAGE(pt_val)
       THEN [m |-> m0, cursor |-> new_cursor, ret |-> ZX_ERR_ALREADY_EXISTS]
       ELSE IF LargePageCandidate(level, pt_val, new_cursor)
       THEN LET c1 == AdvanceP(new_cursor, page_size(level))
            IN [m |-> CursorAsserts(
                          UpdateEntry(m0, level, new_cursor.vaddr, table, index,
                                      new_cursor.paddr,
                                      WithPS(terminal_flags(level, mmu_flags)), FALSE),
                          c1, start_cursor, "AddMapping"),
                cursor |-> c1, ret |-> ZX_OK]
       ELSE AddMappingLower(m0, table, mmu_flags, level, start_cursor, new_cursor, index)

\* X86PageTableBase::AddMapping, the loop (line 517)
RECURSIVE AddMappingLoop(_, _, _, _, _, _, _)
AddMappingLoop(m, table, mmu_flags, level, start_cursor, new_cursor, index) ==
    LET Continue(s) ==
            IF s.ret # ZX_OK
            THEN s
            ELSE AddMappingLoop(s.m, table, mmu_flags, level, start_cursor, s.cursor,
                                index + 1)
    IN IF index = NO_OF_PT_ENTRIES \/ new_cursor.size = 0
       THEN [m |-> m, cursor |-> new_cursor, ret |-> ZX_OK]
       ELSE Continue(AddMappingStep(Iterate(m, start_cursor, new_cursor), table, mmu_flags, level, start_cursor,
                                    new_cursor, index))

\* A faulty abort auto-call: every frame of AddMapping rolls back.
AddMappingAbortAnyLevel(m, table, level, start_cursor, new_cursor) ==
    IF AbortCursor(start_cursor, new_cursor).size > 0
    THEN RemoveMapping(Emit(m, [ev |-> "abort", level |-> level,
                                vaddr |-> start_cursor.vaddr,
                                size |-> AbortCursor(start_cursor, new_cursor).size]),
                       table, level, AbortCursor(start_cursor, new_cursor)).m
    ELSE m

\* AddMapping, lines 496-507: the abort auto-call, run when AddMapping
\* returns an error (after the CacheLineFlusher of the frame is destroyed).
AddMappingAbort(m, table, level, start_cursor, new_cursor) ==
    LET cursor == AbortCursor(start_cursor, new_cursor)
        After(rr) ==
            DebugAssert(rr.m, rr.cursor.size = 0, "AddMapping:abort:result.size==0")
    IN IF level = top_level /\ cursor.size > 0
       THEN After(RemoveMapping(Emit(m, [ev |-> "abort", level |-> level,
                                         vaddr |-> cursor.vaddr, size |-> cursor.size]),
                                table, level, cursor))
       ELSE m

\* X86PageTableBase::AddMapping
AddMapping(m, table, mmu_flags, level, start_cursor) ==
    LET After(r) ==
            IF r.ret # ZX_OK
            THEN [r EXCEPT !.m = AddMappingAbort(ClfDelete(@), table, level,
                                                 start_cursor, r.cursor)]
            ELSE [r EXCEPT !.m = ClfDelete(@)]
        Leave(r) == [r EXCEPT !.m = PopFrame(NoteCursor(@, "return", start_cursor, r.cursor))]
        Body(m0) == Leave(
            IF level = PT_L
            THEN AddMappingL0(m0, table, mmu_flags, start_cursor)
            ELSE After(AddMappingLoop(ClfNew(m0), table, mmu_flags, level, start_cursor,
                                      start_cursor,
                                      vaddr_to_index(level, start_cursor.vaddr))))
    IN Body(Enter(m, "AddMapping", table, level, start_cursor))

\* ------------------------------------------------------------ UpdateMapping
\* X86PageTableBase::UpdateMappingL0, the loop
RECURSIVE UpdateMappingL0Loop(_, _, _, _, _, _)
UpdateMappingL0Loop(m, table, mmu_flags, start_cursor, new_cursor, index) ==
    IF index = NO_OF_PT_ENTRIES \/ new_cursor.size = 0
    THEN [m |-> m, cursor |-> new_cursor, ret |-> ZX_OK]
    ELSE LET m0 == NoteRead(Iterate(m, start_cursor, new_cursor), table)
             pt_val == ReadPte(m0, table, index)
             m1 == IF IS_PAGE_PRESENT(pt_val)
                   THEN UpdateEntry(m0, PT_L, new_cursor.vaddr, table, index,
                                    paddr_from_pte(PT_L, pt_val),
                                    terminal_flags(PT_L, mmu_flags), TRUE)
                   ELSE m0
             c1 == Advance(new_cursor, PAGE_SIZE)
         IN UpdateMappingL0Loop(CursorAsserts(m1, c1, start_cursor, "UpdateMappingL0"),
                                table, mmu_flags, start_cursor, c1, index + 1)

\* X86PageTableBase::UpdateMappingL0
UpdateMappingL0(m, table, mmu_flags, start_cursor) ==
    LET m0 == DebugAssert(m, IS_PAGE_ALIGNED(start_cursor.size),
                          "UpdateMappingL0:IS_PAGE_ALIGNED(size)")
        After(r) ==
            [r EXCEPT !.m = ClfDelete(
                DebugAssert(@, r.cursor.size = 0 \/ page_aligned(PT_L, r.cursor.vaddr),
                            "UpdateMappingL0:size==0||page_aligned"))]
    IN After(UpdateMappingL0Loop(ClfNew(m0), table, mmu_flags, start_cursor,
                                 start_cursor, vaddr_to_index(PT_L, start_cursor.vaddr)))

\* UpdateMapping, lines 656-663: the cursor of the RemoveMapping that unmaps
\* the large page that could not be split.
SplitFailCursor(level, new_cursor) ==
    [paddr |-> 0, vaddr |-> new_cursor.vaddr, size |-> page_size(level)]

RECURSIVE UpdateMapping(_, _, _, _, _)

\* A faulty UpdateMappingSplit: the large page is unmapped instead of split.
UpdateMappingSplitUnmaps(m, table, level, new_cursor, index) ==
    [m |-> UnmapEntry(m, level, new_cursor.vaddr, table, index, TRUE),
     cursor |-> SkipEntry(new_cursor, level)]

\* UpdateMapping, lines 650-666: a large page the request covers only in
\* part is split; when the split fails the large page is unmapped with
\* RemoveMapping and the cursor skips the entry.  Control then reaches line
\* 668 in either case.
UpdateMappingSplit(m, table, level, new_cursor, index) ==
    LET ps == page_size(level)
        page_vaddr == new_cursor.vaddr - (new_cursor.vaddr % ps)
        After(sp) ==
            IF sp.status # ZX_OK
            THEN [m |-> RemoveMapping(sp.m, table, level,
                                      SplitFailCursor(level, new_cursor)).m,
                  cursor |-> SkipEntry(new_cursor, level)]
            ELSE [m |-> sp.m, cursor |-> new_cursor]
    IN After(SplitLargePage(m, level, page_vaddr, table, index))

\* UpdateMapping, lines 668-678: recurse into the lower table of entry `index`.
UpdateMappingLower(m, table, mmu_flags, level, start_cursor, new_cursor, index) ==
    LET next_table == get_next_table_from_entry(ReadPte(m, table, index))
        After(r) ==
            LET m1 == DebugAssert(r.m, r.ret = ZX_OK, "UpdateMapping:ASSERT(false)")
                m2 == CursorAsserts(m1, r.cursor, start_cursor, "UpdateMapping")
            IN [m |-> DebugAssert(m2, r.cursor.size = 0
                                      \/ page_aligned(level, r.cursor.vaddr),
                                  "UpdateMapping:size==0||page_aligned"),
                cursor |-> r.cursor, ret |-> ZX_OK]
    IN After(UpdateMapping(m, next_table, mmu_flags, lower_level(level), new_cursor))

\* A faulty rewrite of a large page by UpdateMapping: the page stays writable.
UpdateMappingLargeFlagsWritable(level, mmu_flags) ==
    WithPS(terminal_flags(level, mmu_flags \cup {"W"}))

\* UpdateMapping, line 643: term_flags | X86_MMU_PG_PS
UpdateMappingLargeFlags(level, mmu_flags) == WithPS(terminal_flags(level, mmu_flags))

\* X86PageTableBase::UpdateMapping, one iteration of the loop (lines 629-678)
UpdateMappingStep(m, table, mmu_flags, level, start_cursor, new_cursor, index) ==
    LET m0 == NoteRead(m, table)
        pt_val == ReadPte(m0, table, index)
        Lower(pre) ==
            UpdateMappingLower(pre.m, table, mmu_flags, level, start_cursor,
                               pre.cursor, index)
    IN IF ~IS_PAGE_PRESENT(pt_val)
       THEN [m |-> m0, cursor |-> SkipEntry(new_cursor, level), ret |-> ZX_OK]
       ELSE IF IS_LARGE_PAGE(pt_val) /\ CoversLargePage(level, new_cursor)
       THEN LET c1 == Advance(new_cursor, page_size(level))
            IN [m |-> CursorAsserts(
                          UpdateEntry(m0, level, new_cursor.vaddr, table, index,
                                      paddr_from_pte(level, pt_val),
                                      UpdateMappingLargeFlags(level, mmu_flags), TRUE),
                          c1, start_cursor, "UpdateMapping"),
                cursor |-> c1, ret |-> ZX_OK]
       ELSE Lower(IF IS_LARGE_PAGE(pt_val)
                  THEN UpdateMappingSplit(m0, table, level, new_cursor, index)
                  ELSE [m |-> m0, cursor |-> new_cursor])

\* X86PageTableBase::UpdateMapping, the loop (line 628)
RECURSIVE UpdateMappingLoop(_, _, _, _, _, _, _)
UpdateMappingLoop(m, table, mmu_flags, level, start_cursor, new_cursor, index) ==
    LET Continue(s) ==
            UpdateMappingLoop(s.m, table, mmu_flags, level, start_cursor, s.cursor,
                              index + 1)
    IN IF index = NO_OF_PT_ENTRIES \/ new_cursor.size = 0
       THEN [m |-> m, cursor |-> new_cursor, ret |-> ZX_OK]
       ELSE Continue(UpdateMappingStep(Iterate(m, start_cursor, new_cursor), table, mmu_flags, level, start_cursor,
                                       new_cursor, index))

\* X86PageTableBase::UpdateMapping
UpdateMapping(m, table, mmu_flags, level, start_cursor) ==
    LET Leave(r) == [r EXCEPT !.m = PopFrame(NoteCursor(@, "return", start_cursor, r.cursor))]
        Body(m0) == Leave(
            IF level = PT_L
            THEN UpdateMappingL0(m0, table, mmu_flags, start_cursor)
            ELSE [UpdateMappingLoop(ClfNew(m0), table, mmu_flags, level, start_cursor,
                                    start_cursor,
                                    vaddr_to_index(level, start_cursor.vaddr))
                    EXCEPT !.m = ClfDelete(@)])
    IN Body(Enter(m, "UpdateMapping", table, level, start_cursor))

\* ------------------------------------------------------------ top-level API
\* The address space spans the NO_OF_PT_ENTRIES entries of the top-level table.
AspaceSize == page_size(top_level) * NO_OF_PT_ENTRIES

check_vaddr(vaddr) == vaddr >= 0 /\ vaddr < AspaceSize
check_paddr(paddr) == paddr >= 0 /\ paddr < 4 * AspaceSize
allowed_flags(mmu_flags) == "R" \in mmu_flags

\* The inputs of the calls.
VaddrSet ==
    {0, PAGE_SIZE, page_size(PD_L), page_size(PD_L) + PAGE_SIZE, page_size(PDP_L)}
CountSet ==
    {1, NO_OF_PT_ENTRIES, NO_OF_PT_ENTRIES + 1, NO_OF_PT_ENTRIES * NO_OF_PT_ENTRIES}
\* MapPagesContiguous: a physical address aligned to every level, mapped
\* read-write, and one that is only page aligned, mapped read-only.
MapArgs ==
    {[paddr |-> 2 * page_size(PDP_L), mmu_flags |-> MmuRW],
     [paddr |-> 2 * page_size(PDP_L) + PAGE_SIZE, mmu_flags |-> MmuR]}
\* MapPages: one page or a table's worth of pages, starting at ListPaddr.
ListCountSet == {1, NO_OF_PT_ENTRIES}
ListPaddr == 3 * page_size(PDP_L)
FailSets == SUBSET (1..MaxAllocFail)

NoPrev ==
    [op |-> "none", status |-> ZX_OK, allocfailed |-> FALSE,
     pre_mem |-> [f \in {ROOT} |-> ZeroTable], pre_pages |-> 0]

NoCall ==
    [op |-> "none", vaddr |-> 0, count |-> 0, phys |-> <<>>, mmu_flags |-> {},
     status |-> ZX_OK, panic |-> FALSE, size |-> 0, trace |-> <<>>, asserts |-> {},
     nullcall |-> FALSE, nullderef |-> FALSE,
     pre_mem |-> [f \in {ROOT} |-> ZeroTable], pre_pages |-> 0, prev |-> NoPrev,
     pre_mmu |-> {ROOT}, fails |-> {}, frames |-> <<>>, maxiters |-> 0,
     cursors |-> {}]

\* What is remembered of the call before this one: it is kept when this call
\* is made on the same vaddr and count, so that two calls in a row on one
\* range can be compared.
PrevCall(vaddr, count) ==
    IF last.op # "none" /\ last.vaddr = vaddr /\ last.count = count
    THEN [op |-> last.op, status |-> last.status,
          allocfailed |-> \E i \in DOMAIN last.trace :
                              last.trace[i].ev = "alloc" /\ last.trace[i].table = NULL,
          pre_mem |-> last.pre_mem, pre_pages |-> last.pre_pages]
    ELSE NoPrev

\* The return of a top-level call that took the lock: the machine state is
\* written back.  A DEBUG_ASSERT that does not hold panics a debug build, and
\* a read through a null table pointer is undefined: it faults (panic) or
\* reads zero and the call goes on.
Return(op, vaddr, count, phys, mmu_flags, mach, status, size) ==
    \E m \in {mach} :
    LET rec == [op |-> op, vaddr |-> vaddr, count |-> count, phys |-> phys,
                mmu_flags |-> mmu_flags, status |-> status, panic |-> FALSE,
                size |-> size, trace |-> m.trace, asserts |-> m.asserts,
                nullcall |-> m.nullcall, nullderef |-> m.nullderef,
                pre_mem |-> mem, pre_pages |-> pages_,
                prev |-> PrevCall(vaddr, count),
                pre_mmu |-> mmu, fails |-> {k \in m.fails : k <= m.nalloc},
                frames |-> m.frames, maxiters |-> m.maxiters, cursors |-> m.cursors]
    IN /\ mem' = m.mem
       /\ mmu' = m.mmu
       /\ pages_' = m.pages
       /\ nops' = nops + 1
       /\ UNCHANGED <<flushes, lock_, thr, serial>>
       /\ \/ /\ halted' = FALSE
             /\ last' = rec
          \/ /\ m.asserts # {} \/ m.nullderef
             /\ halted' = TRUE
             /\ last' = [rec EXCEPT !.panic = TRUE]

\* A top-level call that returns before taking the lock.
ReturnEarly(op, vaddr, count, phys, mmu_flags, status) ==
    /\ last' = [NoCall EXCEPT !.op = op, !.vaddr = vaddr, !.count = count,
                              !.phys = phys, !.mmu_flags = mmu_flags,
                              !.status = status, !.pre_mem = mem,
                              !.pre_pages = pages_, !.pre_mmu = mmu,
                              !.prev = PrevCall(vaddr, count)]
    /\ nops' = nops + 1
    /\ UNCHANGED <<mem, mmu, pages_, flushes, halted, lock_, thr, serial>>

Cursor(paddr, vaddr, size) == [paddr |-> paddr, vaddr |-> vaddr, size |-> size]

\* X86PageTableBase::UnmapPages
UnmapPages(vaddr, count, fails) ==
    /\ IF ~check_vaddr(vaddr)
       THEN ReturnEarly("UnmapPages", vaddr, count, <<>>, {}, ZX_ERR_INVALID_ARGS)
       ELSE IF count = 0
       THEN ReturnEarly("UnmapPages", vaddr, count, <<>>, {}, ZX_OK)
       ELSE \E r \in {RemoveMapping(Machine(fails), ROOT, top_level,
                                     Cursor(0, vaddr, count * PAGE_SIZE))} :
                Return("UnmapPages", vaddr, count, <<>>, {},
                       DebugAssert(r.m, r.cursor.size = 0, "UnmapPages:result.size==0"),
                       ZX_OK, r.cursor.size)

\* X86PageTableBase::MapPagesContiguous
MapPagesContiguous(vaddr, paddr, count, mmu_flags, fails) ==
    /\ IF ~check_paddr(paddr) \/ ~check_vaddr(vaddr)
       THEN ReturnEarly("MapPagesContiguous", vaddr, count, <<paddr>>, mmu_flags,
                        ZX_ERR_INVALID_ARGS)
       ELSE IF count = 0
       THEN ReturnEarly("MapPagesContiguous", vaddr, count, <<paddr>>, mmu_flags, ZX_OK)
       ELSE IF ~allowed_flags(mmu_flags)
       THEN ReturnEarly("MapPagesContiguous", vaddr, count, <<paddr>>, mmu_flags,
                        ZX_ERR_INVALID_ARGS)
       ELSE \E r \in {AddMapping(Machine(fails), ROOT, mmu_flags, top_level,
                                  Cursor(paddr, vaddr, count * PAGE_SIZE))} :
                Return("MapPagesContiguous", vaddr, count, <<paddr>>, mmu_flags,
                       IF r.ret = ZX_OK
                       THEN DebugAssert(r.m, r.cursor.size = 0,
                                        "MapPagesContiguous:result.size==0")
                       ELSE r.m,
                       r.ret, r.cursor.size)

\* A faulty MapPagesUndo: the pages mapped so far are left mapped.
MapPagesUndoNothing(m, vaddr, idx) == m

\* X86PageTableBase::MapPages, lines 769-779: the undo auto-call.
MapPagesUndo(m, vaddr, idx) ==
    LET After(rr) ==
            DebugAssert(rr.m, rr.cursor.size = 0, "MapPages:undo:result.size==0")
    IN IF idx > 0
       THEN After(RemoveMapping(Emit(m, [ev |-> "undo", vaddr |-> vaddr,
                                         size |-> idx * PAGE_SIZE]),
                                ROOT, top_level, Cursor(0, vaddr, idx * PAGE_SIZE)))
       ELSE m

\* X86PageTableBase::MapPages, lines 781-795: the loop over the pages.
RECURSIVE MapPagesLoop(_, _, _, _, _, _)

\* A faulty MapPagesLoop: every page is mapped to the first frame of the list.
MapPagesLoopFirstFrame(m, vaddr, phys, count, mmu_flags, idx) ==
    LET After(r) ==
            IF r.ret # ZX_OK
            THEN [m |-> MapPagesUndo(r.m, vaddr, idx), status |-> r.ret,
                  size |-> r.cursor.size]
            ELSE MapPagesLoop(r.m, vaddr, phys, count, mmu_flags, idx + 1)
    IN IF idx = count
       THEN [m |-> m, status |-> ZX_OK, size |-> 0]
       ELSE After(AddMapping(m, ROOT, mmu_flags, top_level,
                             Cursor(phys[1], vaddr + idx * PAGE_SIZE, PAGE_SIZE)))

MapPagesLoop(m, vaddr, phys, count, mmu_flags, idx) ==
    LET After(r) ==
            IF r.ret # ZX_OK
            THEN [m |-> MapPagesUndo(r.m, vaddr, idx), status |-> r.ret,
                  size |-> r.cursor.size]
            ELSE MapPagesLoop(DebugAssert(r.m, r.cursor.size = 0,
                                          "MapPages:result.size==0"),
                              vaddr, phys, count, mmu_flags, idx + 1)
    IN IF idx = count
       THEN [m |-> m, status |-> ZX_OK, size |-> 0]
       ELSE After(AddMapping(m, ROOT, mmu_flags, top_level,
                             Cursor(phys[idx + 1], vaddr + idx * PAGE_SIZE, PAGE_SIZE)))

\* X86PageTableBase::MapPages; phys[1..count] is the array phys[0..count-1].
MapPages(vaddr, phys, mmu_flags, fails) ==
    /\ LET count == Len(phys)
       IN IF ~check_vaddr(vaddr) \/ \E i \in 1..count : ~check_paddr(phys[i])
          THEN ReturnEarly("MapPages", vaddr, count, phys, mmu_flags, ZX_ERR_INVALID_ARGS)
          ELSE IF count = 0
          THEN ReturnEarly("MapPages", vaddr, count, phys, mmu_flags, ZX_OK)
          ELSE IF ~allowed_flags(mmu_flags)
          THEN ReturnEarly("MapPages", vaddr, count, phys, mmu_flags, ZX_ERR_INVALID_ARGS)
          ELSE \E r \in {MapPagesLoop(Machine(fails), vaddr, phys, count, mmu_flags, 0)} :
                   Return("MapPages", vaddr, count, phys, mmu_flags, r.m, r.status, r.size)

\* A faulty ProtectPages: the arguments are not validated.
ProtectPagesUnchecked(vaddr, count, mmu_flags, fails) ==
    \E r \in {UpdateMapping(Machine(fails), ROOT, mmu_flags, top_level,
                             Cursor(0, vaddr, count * PAGE_SIZE))} :
        Return("ProtectPages", vaddr, count, <<>>, mmu_flags, r.m, r.ret, r.cursor.size)

\* X86PageTableBase::ProtectPages
ProtectPages(vaddr, count, mmu_flags, fails) ==
    /\ IF ~check_vaddr(vaddr)
       THEN ReturnEarly("ProtectPages", vaddr, count, <<>>, mmu_flags, ZX_ERR_INVALID_ARGS)
       ELSE IF count = 0
       THEN ReturnEarly("ProtectPages", vaddr, count, <<>>, mmu_flags, ZX_OK)
       ELSE IF ~allowed_flags(mmu_flags)
       THEN ReturnEarly("ProtectPages", vaddr, count, <<>>, mmu_flags, ZX_ERR_INVALID_ARGS)
       ELSE \E r \in {UpdateMapping(Machine(fails), ROOT, mmu_flags, top_level,
                                     Cursor(0, vaddr, count * PAGE_SIZE))} :
                Return("ProtectPages", vaddr, count, <<>>, mmu_flags,
                       IF r.ret = ZX_OK
                       THEN DebugAssert(r.m, r.cursor.size = 0,
                                        "ProtectPages:result.size==0")
                       ELSE r.m,
                       r.ret, r.cursor.size)

\* The physical page lists of MapPages: count pages upwards from paddr, or
\* the same pages in the opposite order.
PhysList(paddr, count, order) ==
    [i \in 1..count |->
        IF order = "up" THEN paddr + (i - 1) * PAGE_SIZE
        ELSE paddr + (count - i) * PAGE_SIZE]

\* ------------------------------------------------------------ threads
Threads == 1..NumThreads
NoThread == 0

NoRequest == [op |-> "none", vaddr |-> 0, count |-> 0, phys |-> <<>>, mmu_flags |-> {}]
NoRet == [status |-> "none", paddr |-> 0, mmu_flags |-> {}]
NoSnap == [mem |-> <<>>, mmu |-> {}, pages |-> 0]

IdleThread ==
    [pc |-> "idle", ncalls |-> 0, call |-> NoRequest, snap |-> NoSnap,
     ret |-> NoRet, expect |-> NoRet, log |-> <<>>]

Ret(status) == [status |-> status, paddr |-> 0, mmu_flags |-> {}]

\* The machine of a call that runs on the tables `s`; no allocation fails.
MachineOf(s) ==
    [mem |-> s.mem, mmu |-> s.mmu, pages |-> s.pages, fails |-> {}, nalloc |-> 0,
     clf |-> <<>>, trace |-> <<>>, asserts |-> {}, nullcall |-> FALSE,
     nullderef |-> FALSE, flushes |-> flushes, frames |-> <<>>, maxiters |-> 0,
     cursors |-> {}]

\* The part of a top-level call that runs before the lock is taken: the
\* status it returns with, or "none" when the call goes on to take the lock.
BeforeLock(c) ==
    IF c.op = "QueryVaddr" THEN "none"
    ELSE IF c.op = "MapPagesContiguous" /\ ~check_paddr(c.phys[1]) THEN ZX_ERR_INVALID_ARGS
    ELSE IF ~check_vaddr(c.vaddr) THEN ZX_ERR_INVALID_ARGS
    ELSE IF c.op = "MapPages" /\ \E i \in DOMAIN c.phys : ~check_paddr(c.phys[i])
    THEN ZX_ERR_INVALID_ARGS
    ELSE IF c.count = 0 THEN ZX_OK
    ELSE IF c.op # "UnmapPages" /\ ~allowed_flags(c.mmu_flags) THEN ZX_ERR_INVALID_ARGS
    ELSE "none"

\* A faulty QueryVaddr: the page that was found is invalidated in the TLB.
QueryVaddrInvalidates(m, vaddr) ==
    [m |-> IF QueryVaddr(m.mem, vaddr).status = ZX_OK
           THEN Emit(m, [ev |-> "tlb", level |-> PT_L, vaddr |-> vaddr, term |-> TRUE])
           ELSE m,
     ret |-> IF QueryVaddr(m.mem, vaddr).status = ZX_OK
             THEN [status |-> ZX_OK, paddr |-> QueryVaddr(m.mem, vaddr).paddr,
                   mmu_flags |-> QueryVaddr(m.mem, vaddr).mmu_flags]
             ELSE Ret(QueryVaddr(m.mem, vaddr).status)]

\* X86PageTableBase::QueryVaddr with the lock held, on machine m: GetMapping
\* and the decoding of the entry read the tables; the machine is left as it
\* was found.
QueryVaddrUnderLock(m, vaddr) ==
    LET Done(q) ==
            [m |-> m,
             ret |-> IF q.status = ZX_OK
                     THEN [status |-> ZX_OK, paddr |-> q.paddr,
                           mmu_flags |-> q.mmu_flags]
                     ELSE Ret(q.status)]
    IN Done(QueryVaddr(m.mem, vaddr))

\* The part of a top-level call that runs with the lock held, on machine m:
\* the machine it leaves and the value it returns.
UnderLock(c, m) ==
    IF c.op = "UnmapPages"
    THEN LET Done(r) == [m |-> r.m, ret |-> Ret(ZX_OK)]
         IN Done(RemoveMapping(m, ROOT, top_level,
                               Cursor(0, c.vaddr, c.count * PAGE_SIZE)))
    ELSE IF c.op = "MapPagesContiguous"
    THEN LET Done(r) == [m |-> r.m, ret |-> Ret(r.ret)]
         IN Done(AddMapping(m, ROOT, c.mmu_flags, top_level,
                            Cursor(c.phys[1], c.vaddr, c.count * PAGE_SIZE)))
    ELSE IF c.op = "MapPages"
    THEN LET Done(r) == [m |-> r.m, ret |-> Ret(r.status)]
         IN Done(MapPagesLoop(m, c.vaddr, c.phys, c.count, c.mmu_flags, 0))
    ELSE IF c.op = "ProtectPages"
    THEN LET Done(r) == [m |-> r.m, ret |-> Ret(r.ret)]
         IN Done(UpdateMapping(m, ROOT, c.mmu_flags, top_level,
                               Cursor(0, c.vaddr, c.count * PAGE_SIZE)))
    ELSE QueryVaddrUnderLock(m, c.vaddr)

\* The calls the threads make.
ThreadVaddrSet == {0, PAGE_SIZE}
ThreadCountSet == {0, NO_OF_PT_ENTRIES}
ThreadRequests ==
    {[op |-> "UnmapPages", vaddr |-> v, count |-> n, phys |-> <<>>, mmu_flags |-> {}] :
        v \in ThreadVaddrSet, n \in ThreadCountSet}
    \cup {[op |-> "MapPagesContiguous", vaddr |-> v, count |-> n,
           phys |-> <<2 * page_size(PDP_L)>>, mmu_flags |-> MmuRW] :
              v \in ThreadVaddrSet, n \in ThreadCountSet}
    \cup {[op |-> "MapPages", vaddr |-> v, count |-> n,
           phys |-> PhysList(ListPaddr, n, "up"), mmu_flags |-> MmuRW] :
              v \in ThreadVaddrSet, n \in ThreadCountSet}
    \cup {[op |-> "ProtectPages", vaddr |-> v, count |-> n, phys |-> <<>>,
           mmu_flags |-> MmuR] : v \in ThreadVaddrSet, n \in ThreadCountSet}
    \cup {[op |-> "QueryVaddr", vaddr |-> v, count |-> 0, phys |-> <<>>,
           mmu_flags |-> {}] : v \in ThreadVaddrSet}

\* The PTE stores, cache-line flushes and TLB invalidations of a call, in order.
HwLog(trace) == SelectSeq(trace, LAMBDA e : e.ev \in {"store", "clflush", "tlb"})

\* Thread t enters a top-level call: the argument checks, before the lock.
ThreadCall(t) ==
    /\ thr[t].pc = "idle"
    /\ thr[t].ncalls < MaxThreadCalls
    /\ \E c \in ThreadRequests :
          thr' = [thr EXCEPT ![t] =
                    IF BeforeLock(c) = "none"
                    THEN [@ EXCEPT !.pc = "lock", !.call = c, !.ret = NoRet,
                                   !.expect = NoRet]
                    ELSE [@ EXCEPT !.ncalls = @ + 1, !.call = c,
                                   !.ret = Ret(BeforeLock(c)),
                                   !.expect = Ret(BeforeLock(c))]]
    /\ UNCHANGED <<mem, mmu, pages_, flushes, last, nops, halted, lock_, serial>>

\* A faulty ThreadAcquire: the lock is taken whether it is free or not.
ThreadAcquireUnlocked(t) ==
    /\ thr[t].pc = "lock"
    /\ lock_' = t
    /\ \E s \in {UnderLock(thr[t].call, MachineOf(serial))} :
          /\ serial' = [mem |-> s.m.mem, mmu |-> s.m.mmu, pages |-> s.m.pages]
          /\ thr' = [thr EXCEPT ![t].pc = "read", ![t].expect = s.ret]
    /\ UNCHANGED <<mem, mmu, pages_, flushes, last, nops, halted>>

\* fbl::AutoLock a(&lock_): thread t takes the lock when it is free.  The
\* serial execution makes the call of t at this moment.
ThreadAcquire(t) ==
    /\ thr[t].pc = "lock"
    /\ lock_ = NoThread
    /\ lock_' = t
    /\ \E s \in {UnderLock(thr[t].call, MachineOf(serial))} :
          /\ serial' = [mem |-> s.m.mem, mmu |-> s.m.mmu, pages |-> s.m.pages]
          /\ thr' = [thr EXCEPT ![t].pc = "read", ![t].expect = s.ret]
    /\ UNCHANGED <<mem, mmu, pages_, flushes, last, nops, halted>>

\* The walker of thread t reads the tree and pages_.
ThreadRead(t) ==
    /\ thr[t].pc = "read"
    /\ thr' = [thr EXCEPT ![t].pc = "write",
                          ![t].snap = [mem |-> mem, mmu |-> mmu, pages |-> pages_]]
    /\ UNCHANGED <<mem, mmu, pages_, flushes, last, nops, halted, lock_, serial>>

\* The walker of thread t writes the tree and pages_, from what it read, and
\* the call has its return value.
ThreadWrite(t) ==
    /\ thr[t].pc = "write"
    /\ \E r \in {UnderLock(thr[t].call, MachineOf(thr[t].snap))} :
          /\ mem' = r.m.mem
          /\ mmu' = r.m.mmu
          /\ pages_' = r.m.pages
          /\ thr' = [thr EXCEPT ![t].pc = "unlock", ![t].snap = NoSnap,
                                ![t].ret = r.ret, ![t].log = HwLog(r.m.trace)]
    /\ UNCHANGED <<flushes, last, nops, halted, lock_, serial>>

\* ~AutoLock: thread t returns from the call and the lock is released.
ThreadRelease(t) ==
    /\ thr[t].pc = "unlock"
    /\ lock_' = IF lock_ = t THEN NoThread ELSE lock_
    /\ thr' = [thr EXCEPT ![t].pc = "idle", ![t].ncalls = @ + 1, ![t].log = <<>>]
    /\ UNCHANGED <<mem, mmu, pages_, flushes, last, nops, halted, serial>>

\* ------------------------------------------------------------ specification
Init ==
    /\ mem = [f \in {ROOT} |-> ZeroTable]
    /\ mmu = {ROOT}
    /\ pages_ = 0
    /\ flushes \in BOOLEAN
    /\ last = NoCall
    /\ nops = 0
    /\ halted = FALSE
    /\ lock_ = NoThread
    /\ thr = [t \in Threads |-> IdleThread]
    /\ serial = [mem |-> [f \in {ROOT} |-> ZeroTable], mmu |-> {ROOT}, pages |-> 0]

\* The allocator may fail any of the first allocations of a call.  A call
\* that attempts fewer allocations than the first failing ordinal runs exactly
\* as the call with no failure, so those choices are taken once.
Feasible(fails, nalloc0) ==
    fails = {} \/ \E k \in fails : k <= nalloc0 /\ \A j \in fails : k <= j

CallUnmapPages(vaddrs, counts, failsets) ==
    \E vaddr \in vaddrs, count \in counts :
        \E n0 \in {RemoveMapping(Machine({}), ROOT, top_level,
                                 Cursor(0, vaddr, count * PAGE_SIZE)).m.nalloc} :
            \E fails \in failsets :
                /\ Feasible(fails, n0)
                /\ UnmapPages(vaddr, count, fails)

CallMapPagesContiguous(vaddrs, args, counts, failsets) ==
    \E vaddr \in vaddrs, a \in args, count \in counts :
        \E n0 \in {AddMapping(Machine({}), ROOT, a.mmu_flags, top_level,
                              Cursor(a.paddr, vaddr, count * PAGE_SIZE)).m.nalloc} :
            \E fails \in failsets :
                /\ Feasible(fails, n0)
                /\ MapPagesContiguous(vaddr, a.paddr, count, a.mmu_flags, fails)

CallMapPages(vaddrs, counts, failsets) ==
    \E vaddr \in vaddrs, count \in counts, order \in {"up", "down"} :
        \E phys \in {PhysList(ListPaddr, count, order)} :
            \E n0 \in {MapPagesLoop(Machine({}), vaddr, phys, count, MmuRW, 0).m.nalloc} :
                \E fails \in failsets :
                    /\ Feasible(fails, n0)
                    /\ MapPages(vaddr, phys, MmuRW, fails)

CallProtectPages(vaddrs, counts, failsets) ==
    \E vaddr \in vaddrs, count \in counts, mmu_flags \in MmuFlags :
        \E n0 \in {UpdateMapping(Machine({}), ROOT, mmu_flags, top_level,
                                 Cursor(0, vaddr, count * PAGE_SIZE)).m.nalloc} :
            \E fails \in failsets :
                /\ Feasible(fails, n0)
                /\ ProtectPages(vaddr, count, mmu_flags, fails)

DoUnmapPages ==
    /\ ~halted /\ nops < MaxOps
    /\ CallUnmapPages(VaddrSet, CountSet, FailSets)

DoMapPagesContiguous ==
    /\ ~halted /\ nops < MaxOps
    /\ CallMapPagesContiguous(VaddrSet, MapArgs, CountSet, FailSets)

DoMapPages ==
    /\ ~halted /\ nops < MaxOps
    /\ CallMapPages(VaddrSet, ListCountSet, FailSets)

DoProtectPages ==
    /\ ~halted /\ nops < MaxOps
    /\ CallProtectPages(VaddrSet, CountSet, FailSets)

Next ==
    \/ DoUnmapPages
    \/ DoMapPagesContiguous
    \/ DoMapPages
    \/ DoProtectPages

Spec == Init /\ [][Next]_vars

\* Longer runs of calls on few addresses: the last page below a PDP boundary
\* and the first page above it, one page or two at a time, unaligned frames.
DeepVaddrSet == {page_size(PDP_L) - PAGE_SIZE, page_size(PDP_L)}
DeepCountSet == {1, 2}
DeepMapArgs == {[paddr |-> 2 * page_size(PDP_L) + PAGE_SIZE, mmu_flags |-> MmuRW]}
DeepFailSets == SUBSET (1..MaxAllocFailDeep)

DeepUnmapPages ==
    /\ ~halted /\ nops < MaxOpsDeep
    /\ CallUnmapPages(DeepVaddrSet, DeepCountSet, DeepFailSets)

DeepMapPagesContiguous ==
    /\ ~halted /\ nops < MaxOpsDeep
    /\ CallMapPagesContiguous(DeepVaddrSet, DeepMapArgs, DeepCountSet, DeepFailSets)

DeepMapPages ==
    /\ ~halted /\ nops < MaxOpsDeep
    /\ CallMapPages(DeepVaddrSet, DeepCountSet, DeepFailSets)

DeepProtectPages ==
    /\ ~halted /\ nops < MaxOpsDeep
    /\ CallProtectPages(DeepVaddrSet, DeepCountSet, DeepFailSets)

DeepNext ==
    \/ DeepUnmapPages
    \/ DeepMapPagesContiguous
    \/ DeepMapPages
    \/ DeepProtectPages

SpecDeep == Init /\ [][DeepNext]_vars

\* Runs of three calls around one large page: a range of one or of one and a
\* half PD large pages, at the start of the large page or at its second page,
\* frames aligned to every level.
LargeVaddrSet == {0, PAGE_SIZE}
LargeCountSet == {NO_OF_PT_ENTRIES, NO_OF_PT_ENTRIES + 1}
LargeMapArgs == {[paddr |-> 2 * page_size(PDP_L), mmu_flags |-> MmuRW]}
LargeFailSets == SUBSET (1..MaxAllocFailLarge)

LargeUnmapPages ==
    /\ ~halted /\ nops < MaxOpsLarge
    /\ CallUnmapPages(LargeVaddrSet, LargeCountSet, LargeFailSets)

LargeMapPagesContiguous ==
    /\ ~halted /\ nops < MaxOpsLarge
    /\ CallMapPagesContiguous(LargeVaddrSet, LargeMapArgs, LargeCountSet, LargeFailSets)

LargeProtectPages ==
    /\ ~halted /\ nops < MaxOpsLarge
    /\ CallProtectPages(LargeVaddrSet, LargeCountSet, LargeFailSets)

LargeNext ==
    \/ LargeUnmapPages
    \/ LargeMapPagesContiguous
    \/ LargeProtectPages

SpecLarge == Init /\ [][LargeNext]_vars

\* Calls with arguments of every kind, two in a row: a virtual address, a
\* physical address and flags that pass validation and ones that do not, and
\* counts from 0.  No allocation fails.
ArgsVaddrSet == {0, PAGE_SIZE, AspaceSize}
ArgsPaddrSet == {2 * page_size(PDP_L), 4 * AspaceSize}
ArgsFlagSet == {MmuRW, {"W"}}
ArgsCountSet == {0, 1, NO_OF_PT_ENTRIES}

ArgsUnmapPages ==
    /\ ~halted /\ nops < MaxOpsArgs
    /\ \E vaddr \in ArgsVaddrSet, count \in ArgsCountSet :
          UnmapPages(vaddr, count, {})

ArgsMapPagesContiguous ==
    /\ ~halted /\ nops < MaxOpsArgs
    /\ \E vaddr \in ArgsVaddrSet, paddr \in ArgsPaddrSet, count \in ArgsCountSet,
          mmu_flags \in ArgsFlagSet :
          MapPagesContiguous(vaddr, paddr, count, mmu_flags, {})

ArgsMapPages ==
    /\ ~halted /\ nops < MaxOpsArgs
    /\ \E vaddr \in ArgsVaddrSet, count \in ArgsCountSet, mmu_flags \in ArgsFlagSet :
          \E phys \in [1..count -> ArgsPaddrSet] :
              MapPages(vaddr, phys, mmu_flags, {})

ArgsProtectPages ==
    /\ ~halted /\ nops < MaxOpsArgs
    /\ \E vaddr \in ArgsVaddrSet, count \in ArgsCountSet, mmu_flags \in ArgsFlagSet :
          ProtectPages(vaddr, count, mmu_flags, {})

ArgsNext ==
    \/ ArgsUnmapPages
    \/ ArgsMapPagesContiguous
    \/ ArgsMapPages
    \/ ArgsProtectPages

SpecArgs == Init /\ [][ArgsNext]_vars

\* Threads that call into one address space concurrently.
ThreadsNext ==
    \/ \E t \in Threads : ThreadCall(t)
    \/ \E t \in Threads : ThreadAcquire(t)
    \/ \E t \in Threads : ThreadRead(t)
    \/ \E t \in Threads : ThreadWrite(t)
    \/ \E t \in Threads : ThreadRelease(t)

SpecThreads == Init /\ [][ThreadsNext]_vars

\* ------------------------------------------------------------ observations
Addrs == 0..(AspaceSize - 1)

\* The addresses of the request of the last call.
Range == {a \in Addrs : last.vaddr <= a /\ a < last.vaddr + last.count * PAGE_SIZE}

Mapped(tables, a) == QueryVaddr(tables, a).status = ZX_OK

\* QueryVaddr gives the same answer for address a on both sets of tables.
SameAnswer(t1, t2, a) ==
    IF Mapped(t1, a)
    THEN /\ Mapped(t2, a)
         /\ QueryVaddr(t2, a).paddr = QueryVaddr(t1, a).paddr
         /\ QueryVaddr(t2, a).mmu_flags = QueryVaddr(t1, a).mmu_flags
    ELSE ~Mapped(t2, a)

\* The present non-terminal entries reachable from `table`, as <<table, index>>.
RECURSIVE InterEntries(_, _, _)
InterEntries(tables, table, level) ==
    IF level = PT_L
    THEN {}
    ELSE UNION {IF IS_PAGE_PRESENT(tables[table][i]) /\ ~IS_LARGE_PAGE(tables[table][i])
                THEN {<<table, i>>}
                     \cup InterEntries(tables,
                                       get_next_table_from_entry(tables[table][i]),
                                       lower_level(level))
                ELSE {} : i \in 0..(NO_OF_PT_ENTRIES - 1)}

\* The intermediate tables reachable from the root (the root is not one).
InterTables(tables) ==
    {get_next_table_from_entry(tables[te[1]][te[2]]) :
        te \in InterEntries(tables, ROOT, top_level)}

\* The shape of the tree below `table`: every present entry reachable from
\* it, with the indices that lead to it from the root, whether it is terminal,
\* and its contents.
RECURSIVE TreeEntries(_, _, _, _)
TreeEntries(tables, table, level, path) ==
    UNION {IF ~IS_PAGE_PRESENT(tables[table][i])
           THEN {}
           ELSE IF level = PT_L \/ IS_LARGE_PAGE(tables[table][i])
           THEN {[path |-> Append(path, i), terminal |-> TRUE, pte |-> tables[table][i]]}
           ELSE {[path |-> Append(path, i), terminal |-> FALSE, pte |-> tables[table][i]]}
                \cup TreeEntries(tables, get_next_table_from_entry(tables[table][i]),
                                 lower_level(level), Append(path, i))
           : i \in 0..(NO_OF_PT_ENTRIES - 1)}

Shape(tables) == TreeEntries(tables, ROOT, top_level, <<>>)

\* The level of an entry of the shape, from the length of its path.
EntryLevel(e) == top_level + 1 - Len(e.path)

\* The entry that covers vaddr at level `target` is absent: the walk from
\* `table` at `level` finds no entry on the way, or finds the entry at
\* `target` not present.  (A large page above `target` covers vaddr.)
RECURSIVE EntryAbsentAt(_, _, _, _, _)
EntryAbsentAt(tables, table, level, vaddr, target) ==
    IF ~IS_PAGE_PRESENT(tables[table][vaddr_to_index(level, vaddr)])
    THEN TRUE
    ELSE IF level = target \/ level = PT_L
            \/ IS_LARGE_PAGE(tables[table][vaddr_to_index(level, vaddr)])
    THEN FALSE
    ELSE EntryAbsentAt(tables,
                       get_next_table_from_entry(
                           tables[table][vaddr_to_index(level, vaddr)]),
                       lower_level(level), vaddr, target)

\* The level at which address a is mapped, or NULL.
MappedLevel(tables, a) ==
    IF Mapped(tables, a) THEN GetMapping(tables, ROOT, a, top_level).ret_level ELSE NULL

Events(kind) == {i \in DOMAIN last.trace : last.trace[i].ev = kind}

\* A table allocation failed during the last call.
AllocFailed == \E i \in Events("alloc") : last.trace[i].table = NULL

\* The last call was `op`, and it returned `status` to its caller.
Returned(op, status) == last.op = op /\ last.status = status /\ ~last.panic

\* ------------------------------------------------------------ claims

\* C1: after UnmapPages(vaddr, count) returns OK, QueryVaddr returns
\* NotFound for every page of the range; and when no table allocation failed
\* during the call, every address outside the range that was mapped before
\* the call is still mapped to the same physical address and flags.
C1_UnmapPagesPostcondition ==
    Returned("UnmapPages", ZX_OK) =>
        /\ \A a \in Range : ~Mapped(mem, a)
        /\ ~AllocFailed =>
              \A a \in Addrs \ Range :
                  Mapped(last.pre_mem, a) => SameAnswer(last.pre_mem, mem, a)

\* C2: after MapPagesContiguous(v, p, count, flags) returns OK, QueryVaddr(a)
\* returns (p + (a - v), pt_flags_to_mmu_flags(terminal_flags(flags))) for
\* every address a of the range, whether leaf entries or large pages were
\* installed, and every address outside the range answers as before.
C2_MapQueryRoundTrip ==
    Returned("MapPagesContiguous", ZX_OK) =>
        /\ \A a \in Range :
              /\ Mapped(mem, a)
              /\ QueryVaddr(mem, a).paddr = last.phys[1] + (a - last.vaddr)
              /\ QueryVaddr(mem, a).mmu_flags =
                     pt_flags_to_mmu_flags(terminal_flags(PT_L, last.mmu_flags), PT_L)
        /\ \A a \in Addrs \ Range : SameAnswer(last.pre_mem, mem, a)

\* C2 witness: a successful MapPagesContiguous that installed a large page
\* and a leaf entry.
C2_Witness ==
    /\ Returned("MapPagesContiguous", ZX_OK)
    /\ \E a \in Range : MappedLevel(mem, a) = PD_L
    /\ \E a \in Range : MappedLevel(mem, a) = PT_L

\* C3: when MapPagesContiguous on an unmapped range returns OutOfMemory,
\* whichever allocation failed, pages_ equals its value before the call and
\* QueryVaddr returns NotFound for every address of the range.
C3_OutOfMemoryRollsBack ==
    (/\ Returned("MapPagesContiguous", ZX_ERR_NO_MEMORY)
     /\ \A a \in Range : ~Mapped(last.pre_mem, a)) =>
        /\ pages_ = last.pre_pages
        /\ \A a \in Range : ~Mapped(mem, a)

\* C4: after any sequence of top-level calls, no intermediate table reachable
\* from the root has zero present entries.
C4_NoZombies ==
    ~halted =>
        \A t \in InterTables(mem) :
            \E i \in 0..(NO_OF_PT_ENTRIES - 1) : IS_PAGE_PRESENT(mem[t][i])

\* C5: after any sequence of top-level calls, pages_ equals the number of
\* present non-terminal entries reachable from the root.
C5_NoLeaks ==
    ~halted => pages_ = Cardinality(InterEntries(mem, ROOT, top_level))

\* C6: a Map call whose range overlaps an existing terminal mapping returns
\* AlreadyExists (no table allocation failing first) and leaves the tree as it
\* was: every address answers QueryVaddr as before the call, so every entry
\* the call installed is removed again, and pages_ is unchanged.
C6_AlreadyExistsLeavesTree ==
    (/\ last.op \in {"MapPages", "MapPagesContiguous"}
     /\ ~last.panic
     /\ \E a \in Range : Mapped(last.pre_mem, a)
     /\ last.status = ZX_ERR_ALREADY_EXISTS \/ ~AllocFailed) =>
        /\ last.status = ZX_ERR_ALREADY_EXISTS
        /\ \A a \in Addrs : SameAnswer(last.pre_mem, mem, a)
        /\ pages_ = last.pre_pages

\* C7: in an address space with needs_cache_flushes, every PTE store that
\* replaces a present entry is followed by the clflush of that entry's cache
\* line and then by the tlb_invalidate of its (level, vaddr), with no
\* invalidation of a different (level, vaddr) in between.
C7_FlushOrdering ==
    flushes =>
        \A i \in Events("store") :
            last.trace[i].old =>
                \E j \in Events("clflush"), k \in Events("tlb") :
                    /\ i < j /\ j < k
                    /\ last.trace[j].line = LineOf(last.trace[i].table, last.trace[i].index)
                    /\ last.trace[k].level = last.trace[i].level
                    /\ last.trace[k].vaddr = last.trace[i].vaddr
                    /\ \A n \in Events("tlb") :
                          (i < n /\ n < k) =>
                              /\ last.trace[n].level = last.trace[i].level
                              /\ last.trace[n].vaddr = last.trace[i].vaddr

\* C7 witness: a call in a flushing address space that replaced a present entry.
C7_Witness ==
    /\ flushes
    /\ \E i \in Events("store") : last.trace[i].old
    /\ \E i \in Events("split") : TRUE

\* C8: when SplitLargePage fails inside RemoveMapping (UnmapPages on part of a
\* large page), the walker unmaps the large entry, skips it and goes on with
\* the next entry: no walker is entered for a lower table of that entry (a
\* null table), no table is freed for it and pages_ changes only by the
\* tables really made or freed, and UnmapPages returns OK with the cursor at 0.
C8_SplitFailureInRemoveMapping ==
    (last.op = "UnmapPages" /\ Events("splitfail") # {}) =>
        /\ \A i \in Events("call") : last.trace[i].table # NULL
        /\ \A i \in Events("free") : last.trace[i].table # NULL
        /\ pages_ = last.pre_pages + Cardinality(Events("split"))
                                   - Cardinality(Events("free"))
        /\ Returned("UnmapPages", ZX_OK)
        /\ last.size = 0

\* The addresses of the large pages whose split failed during the last call.
SplitFailPages ==
    UNION {{a \in Addrs : /\ last.trace[i].vaddr <= a
                          /\ a < last.trace[i].vaddr + page_size(last.trace[i].level)} :
           i \in Events("splitfail")}

\* C9: when SplitLargePage fails inside UpdateMapping (ProtectPages on part of
\* a large page), exactly that large page is unmapped: no address of it is
\* mapped afterwards, every address outside it that was mapped keeps its
\* physical address (and its flags too when it lies outside the request), no
\* walker is entered for a lower table of that entry, and ProtectPages
\* returns OK.
C9_SplitFailureInUpdateMapping ==
    (last.op = "ProtectPages" /\ Events("splitfail") # {}) =>
        /\ \A a \in SplitFailPages : ~Mapped(mem, a)
        /\ \A a \in Addrs \ SplitFailPages :
              Mapped(last.pre_mem, a) =>
                  /\ Mapped(mem, a)
                  /\ QueryVaddr(mem, a).paddr = QueryVaddr(last.pre_mem, a).paddr
                  /\ a \notin Range => SameAnswer(last.pre_mem, mem, a)
        /\ \A i \in Events("call") : last.trace[i].table # NULL
        /\ Returned("ProtectPages", ZX_OK)

C12_ProtectPostcondition ==
    (Returned("ProtectPages", ZX_OK) /\ ~AllocFailed) =>
        /\ \A a \in Range :
              IF Mapped(last.pre_mem, a)
              THEN /\ Mapped(mem, a)
                   /\ QueryVaddr(mem, a).mmu_flags =
                          pt_flags_to_mmu_flags(terminal_flags(PT_L, last.mmu_flags),
                                                PT_L)
              ELSE ~Mapped(mem, a)
        /\ \A a \in Addrs \ Range : SameAnswer(last.pre_mem, mem, a)

\* C12 witness: a ProtectPages with no allocation failure that changed the
\* flags of a page, met a hole in its range, and split a large page of which
\* a page lies outside the range.
C12_Witness ==
    /\ Returned("ProtectPages", ZX_OK)
    /\ ~AllocFailed
    /\ \E a \in Range :
          /\ Mapped(last.pre_mem, a)
          /\ QueryVaddr(last.pre_mem, a).mmu_flags # QueryVaddr(mem, a).mmu_flags
    /\ \E a \in Range : ~Mapped(last.pre_mem, a)
    /\ \E i \in Events("split") :
          \E a \in Addrs \ Range :
              /\ last.trace[i].vaddr <= a
              /\ a < last.trace[i].vaddr + page_size(last.trace[i].level)

\* C13: UnmapPages(v, n) applied twice in a row has the same result as
\* applying it once: the second call returns OK, changes no PTE and not
\* pages_, and issues no TLB invalidation.
C13_UnmapIdempotent ==
    (/\ last.op = "UnmapPages"
     /\ last.prev.op = "UnmapPages"
     /\ last.prev.status = ZX_OK) =>
        /\ Returned("UnmapPages", ZX_OK)
        /\ mem = last.pre_mem
        /\ pages_ = last.pre_pages
        /\ Events("tlb") = {}

\* C14: a successful Map of a range followed by UnmapPages of the same range
\* restores pages_ and the shape of the tree (which entries are present,
\* terminal or intermediate, and their contents) to the state before the Map,
\* except possibly for intermediate tables that existed before the Map: every
\* entry present afterwards was present before the Map with the same
\* contents, the entries that are gone are entries of intermediate tables,
\* and pages_ is its value before the Map less the number of those.
C14_MapUnmapRestores ==
    (/\ Returned("UnmapPages", ZX_OK)
     /\ last.prev.op \in {"MapPages", "MapPagesContiguous"}
     /\ last.prev.status = ZX_OK) =>
        /\ Shape(mem) \subseteq Shape(last.prev.pre_mem)
        /\ \A e \in Shape(last.prev.pre_mem) \ Shape(mem) : ~e.terminal
        /\ pages_ = last.prev.pre_pages
                        - Cardinality(Shape(last.prev.pre_mem) \ Shape(mem))

\* C14 witness: a Map that made tables below a table that existed before it,
\* then UnmapPages of the same range, which freed the tables the Map made and
\* kept the table that existed.
C14_Witness ==
    /\ Returned("UnmapPages", ZX_OK)
    /\ last.prev.op \in {"MapPages", "MapPagesContiguous"}
    /\ last.prev.status = ZX_OK
    /\ last.prev.pre_pages > 0
    /\ last.pre_pages > last.prev.pre_pages
    /\ pages_ = last.prev.pre_pages
    /\ Events("free") # {}

\* The last call was a MapPagesContiguous of exactly page_size(level) bytes,
\* vaddr and paddr aligned to page_size(level), level supporting large pages,
\* the covering entry of that level absent, and no table allocation failed.
LargeMapCase(level) ==
    /\ last.op = "MapPagesContiguous"
    /\ ~last.panic
    /\ ~AllocFailed
    /\ supports_page_size(level)
    /\ last.count * PAGE_SIZE = page_size(level)
    /\ page_aligned(level, last.vaddr)
    /\ page_aligned(level, last.phys[1])
    /\ EntryAbsentAt(last.pre_mem, ROOT, top_level, last.vaddr, level)

\* C15: MapPagesContiguous of exactly page_size(L) bytes, with v and p aligned
\* to page_size(L), supports_large(L) and the covering entry at level L absent,
\* returns OK, installs exactly one terminal (large) PTE, at level L, and
\* allocates no table below level L: every entry of before is kept, the new
\* intermediate entries are above L, and pages_ grows by their number, which
\* is the number of allocations (two tables for a PD large page mapped into
\* an empty address space).
C15_LargePageOpportunism ==
    \A level \in PD_L..PDP_L :
        LargeMapCase(level) =>
            /\ last.status = ZX_OK
            /\ Shape(last.pre_mem) \subseteq Shape(mem)
            /\ Cardinality({e \in Shape(mem) \ Shape(last.pre_mem) : e.terminal}) = 1
            /\ \A e \in Shape(mem) \ Shape(last.pre_mem) :
                  IF e.terminal
                  THEN EntryLevel(e) = level /\ IS_LARGE_PAGE(e.pte)
                  ELSE EntryLevel(e) > level
            /\ pages_ = last.pre_pages
                            + Cardinality({e \in Shape(mem) \ Shape(last.pre_mem) :
                                              ~e.terminal})
            /\ Cardinality(Events("alloc")) = pages_ - last.pre_pages
            /\ Shape(last.pre_mem) = {} => pages_ - last.pre_pages = top_level - level

\* C15 witness: a PD large page mapped into an empty address space, and
\* pages_ grown by two.
C15_Witness ==
    /\ LargeMapCase(PD_L)
    /\ last.status = ZX_OK
    /\ Shape(last.pre_mem) = {}
    /\ pages_ = last.pre_pages + 2

\* The addresses of the large page split by event i of the last call.
SplitRange(i) ==
    {a \in Addrs : /\ last.trace[i].vaddr <= a
                   /\ a < last.trace[i].vaddr + page_size(last.trace[i].level)}

\* C16: after SplitLargePage(level, vaddr, pte) succeeds, every address of
\* [vaddr, vaddr + page_size(level)), and every other address, translates to
\* the same physical address with the same permissions as before the split,
\* and sub-entry i of the new table maps
\* frame(level, old pte) + i * page_size(level - 1) with split_flags, for
\* every i.
C16_SplitConservation ==
    \A i \in Events("split") :
        /\ \A a \in SplitRange(i) :
              SameAnswer(last.trace[i].before, last.trace[i].after, a)
        /\ \A a \in Addrs \ SplitRange(i) :
              SameAnswer(last.trace[i].before, last.trace[i].after, a)
        /\ \A k \in 0..(NO_OF_PT_ENTRIES - 1) :
              last.trace[i].after[last.trace[i].table][k] =
                  [p |-> TRUE,
                   ps |-> split_flags(last.trace[i].level,
                                      LargeFlagsOf(last.trace[i].pte)).ps,
                   bits |-> split_flags(last.trace[i].level,
                                        LargeFlagsOf(last.trace[i].pte)).bits,
                   addr |-> paddr_from_pte(last.trace[i].level, last.trace[i].pte)
                                + k * page_size(lower_level(last.trace[i].level))]

\* C16 witness: a call that split a PDP large page into PD large pages and
\* then one of those into leaf pages, each of them mapped at the vaddr given
\* to SplitLargePage.
C16_Witness ==
    /\ \E i \in Events("split") :
          /\ last.trace[i].level = PDP_L
          /\ \A a \in SplitRange(i) : MappedLevel(last.trace[i].before, a) = PDP_L
    /\ \E i \in Events("split") :
          /\ last.trace[i].level = PD_L
          /\ \A a \in SplitRange(i) : MappedLevel(last.trace[i].before, a) = PD_L

\* The addresses of the PD large page that holds address a.
PdPageOf(a) == {b \in Addrs : b \div page_size(PD_L) = a \div page_size(PD_L)}

\* The last call was an UnmapPages of some but not all pages of one PD large
\* page, and no table allocation failed.
UnmapPartOfLargePage ==
    /\ last.op = "UnmapPages"
    /\ ~last.panic
    /\ ~AllocFailed
    /\ last.count > 0
    /\ last.count * PAGE_SIZE < page_size(PD_L)
    /\ Range \subseteq PdPageOf(last.vaddr)
    /\ \A a \in PdPageOf(last.vaddr) : MappedLevel(last.pre_mem, a) = PD_L

\* C17: UnmapPages on k pages (0 < k < NO_OF_PT_ENTRIES) of a PD large page,
\* with the table allocation succeeding, returns OK, creates exactly one
\* level-0 table and frees none (pages_ += 1), leaves the k requested pages
\* absent and the other pages of the large page present as terminal level-0
\* entries with their original physical addresses and flags.
C17_UnmapPartOfLargePage ==
    UnmapPartOfLargePage =>
        /\ last.status = ZX_OK
        /\ pages_ = last.pre_pages + 1
        /\ Cardinality(Events("alloc")) = 1
        /\ Cardinality(Events("split")) = 1
        /\ Events("free") = {}
        /\ \A i \in Events("split") :
              last.trace[i].level = PD_L /\ last.vaddr \in SplitRange(i)
        /\ \A a \in Range : ~Mapped(mem, a)
        /\ \A a \in PdPageOf(last.vaddr) \ Range :
              /\ MappedLevel(mem, a) = PT_L
              /\ SameAnswer(last.pre_mem, mem, a)

\* C17 witness: the large page v = page_size(PD_L) -> p = 2 * page_size(PDP_L),
\* read-write, and UnmapPages(v, 1): the first page is absent and QueryVaddr
\* of the second page returns (p + PAGE_SIZE, RW).
C17_Witness ==
    /\ UnmapPartOfLargePage
    /\ last.vaddr = page_size(PD_L)
    /\ last.count = 1
    /\ ~Mapped(mem, last.vaddr)
    /\ Mapped(mem, last.vaddr + PAGE_SIZE)
    /\ QueryVaddr(mem, last.vaddr + PAGE_SIZE).paddr = 2 * page_size(PDP_L) + PAGE_SIZE
    /\ QueryVaddr(mem, last.vaddr + PAGE_SIZE).mmu_flags = {"R", "W"}

\* The last call was UnmapPages(v, 1) of the only mapped page of the address
\* space: the call before it was a successful Map of the one page v into an
\* empty tree.
UnmapOnlyPage ==
    /\ last.op = "UnmapPages"
    /\ ~last.panic
    /\ last.count = 1
    /\ last.prev.op \in {"MapPages", "MapPagesContiguous"}
    /\ last.prev.status = ZX_OK
    /\ Shape(last.prev.pre_mem) = {}

\* C18: unmapping the only mapped page of an address space (Map of one page
\* at v into an empty tree, then UnmapPages(v, 1)) returns OK and frees
\* exactly the three intermediate tables the Map created, with exactly three
\* free_table calls, and restores pages_ to its value before the Map.
C18_UnmapOnlyPageFreesTables ==
    UnmapOnlyPage =>
        /\ last.status = ZX_OK
        /\ last.pre_pages = last.prev.pre_pages + 3
        /\ Cardinality(Events("free")) = 3
        /\ {last.trace[i].table : i \in Events("free")} = InterTables(last.pre_mem)
        /\ Cardinality(InterTables(last.pre_mem)) = 3
        /\ mmu = {ROOT}
        /\ Shape(mem) = {}
        /\ pages_ = last.prev.pre_pages

\* C18 witness: the scenario at v = PAGE_SIZE (the second page of the
\* address space), from pages_ = 0.
C18_Witness ==
    /\ UnmapOnlyPage
    /\ last.vaddr = PAGE_SIZE
    /\ last.prev.pre_pages = 0
    /\ last.pre_pages = 3
    /\ pages_ = 0

\* The TLB invalidations of the last call, in order.
TlbTrace == SelectSeq(last.trace, LAMBDA e : e.ev = "tlb")

TlbEvent(level, vaddr, was_terminal) ==
    [ev |-> "tlb", level |-> level, vaddr |-> vaddr, term |-> was_terminal]

\* C19 as stated: in the same scenario the trace of TLB events is exactly
\* three tlb_invalidate(level=0, vaddr=v, was_terminal=true) calls followed by
\* at most three invalidations with was_terminal=false.
C19_ThreeTerminalInvalidations ==
    UnmapOnlyPage =>
        /\ Len(TlbTrace) >= 3
        /\ Len(TlbTrace) <= 6
        /\ \A k \in 1..Len(TlbTrace) :
              IF k <= 3
              THEN TlbTrace[k] = TlbEvent(PT_L, last.vaddr, TRUE)
              ELSE ~TlbTrace[k].term

\* C19 amended: in the same scenario the trace of TLB events is exactly one
\* tlb_invalidate(level=0, vaddr=v, was_terminal=true), for the leaf entry,
\* followed by exactly three invalidations with was_terminal=false, for the
\* entries of the freed tables at levels 1, 2 and 3, each with vaddr=v.
C19_OneTerminalThenThreeNonTerminal ==
    UnmapOnlyPage =>
        TlbTrace = <<TlbEvent(PT_L, last.vaddr, TRUE),
                     TlbEvent(PD_L, last.vaddr, FALSE),
                     TlbEvent(PDP_L, last.vaddr, FALSE),
                     TlbEvent(PML4_L, last.vaddr, FALSE)>>

\* C19 witness: the scenario at v = PAGE_SIZE, with its four invalidations.
C19_Witness ==
    /\ UnmapOnlyPage
    /\ last.vaddr = PAGE_SIZE
    /\ Len(TlbTrace) = 4

\* The arguments of the last call that fail validation.
BadVaddr == ~check_vaddr(last.vaddr)
BadPaddr == \E i \in DOMAIN last.phys : ~check_paddr(last.phys[i])
BadFlags == last.op # "UnmapPages" /\ ~allowed_flags(last.mmu_flags)

ApiCall == last.op \in {"MapPages", "MapPagesContiguous", "UnmapPages", "ProtectPages"}

\* C20 as stated: every call of MapPages, MapPagesContiguous, UnmapPages or
\* ProtectPages whose vaddr fails check_vaddr, whose paddr (any element of the
\* list for MapPages) fails check_paddr, or whose mmu_flags fail
\* allowed_flags returns InvalidArgs, for every value of count, and changes no
\* PTE and not pages_.
C20_InvalidArgsRejected ==
    (ApiCall /\ (BadVaddr \/ BadPaddr \/ BadFlags)) =>
        /\ Returned(last.op, ZX_ERR_INVALID_ARGS)
        /\ mem = last.pre_mem
        /\ pages_ = last.pre_pages

\* C20 amended: a call whose vaddr fails check_vaddr or whose paddr (any
\* element of the list for MapPages) fails check_paddr returns InvalidArgs for
\* every value of count; a call whose mmu_flags fail allowed_flags, with vaddr
\* and paddr valid, returns InvalidArgs when count > 0 and OK when count = 0,
\* the count being tested before the flags; in each of these cases no PTE and
\* not pages_ is changed.
C20_InvalidArgsRejectedUnlessEmpty ==
    (ApiCall /\ (BadVaddr \/ BadPaddr \/ BadFlags)) =>
        /\ Returned(last.op,
                    IF BadVaddr \/ BadPaddr \/ last.count > 0
                    THEN ZX_ERR_INVALID_ARGS
                    ELSE ZX_OK)
        /\ mem = last.pre_mem
        /\ pages_ = last.pre_pages

\* C20 witness: a call on a tree with mappings whose flags alone fail
\* validation, with count > 0, returned InvalidArgs.
C20_Witness ==
    /\ ApiCall
    /\ BadFlags /\ ~BadVaddr /\ ~BadPaddr
    /\ last.count > 0
    /\ last.status = ZX_ERR_INVALID_ARGS
    /\ Shape(mem) # {}

\* The threads that are reading or writing the tree or pages_.
InTree == {t \in Threads : thr[t].pc \in {"read", "write", "unlock"}}

\* C21: operations on one address space are serialized by its lock: at most
\* one thread is reading or writing the tree or pages_ at any time, and it is
\* the holder of the lock; every value returned is the value the call returns
\* when the calls are executed one after another in lock-acquisition order,
\* and whenever the lock is free the tree and pages_ are those of that
\* execution.
C21_LockSerializes ==
    /\ Cardinality(InTree) <= 1
    /\ \A t \in InTree : lock_ = t
    /\ \A t \in Threads :
          thr[t].pc \in {"idle", "unlock"} => thr[t].ret = thr[t].expect
    /\ lock_ = NoThread =>
          /\ mem = serial.mem
          /\ mmu = serial.mmu
          /\ pages_ = serial.pages

\* C21 witness: both threads have made all their calls; a Map of one thread
\* found a mapping in its way, a QueryVaddr found a page, and the tree has a
\* mapping at the end.
C21_Witness ==
    /\ \A t \in Threads : thr[t].pc = "idle" /\ thr[t].ncalls = MaxThreadCalls
    /\ \E t \in Threads : thr[t].ret.status = ZX_ERR_ALREADY_EXISTS
    /\ \E t \in Threads : thr[t].call.op = "QueryVaddr" /\ thr[t].ret.status = ZX_OK
    /\ Shape(mem) # {}

\* The number of pages the last MapPages had mapped when it failed: the idx
\* of its undo auto-call (0 when the undo had nothing to unmap).
PagesMappedBeforeFailure ==
    IF Events("undo") = {} THEN 0
    ELSE (last.trace[CHOOSE i \in Events("undo") : TRUE].size) \div PAGE_SIZE

MapPagesFailed ==
    /\ last.op = "MapPages"
    /\ ~last.panic
    /\ last.status \notin {ZX_OK, ZX_ERR_INVALID_ARGS}

\* C22: when MapPages(vaddr, phys, flags) fails while mapping its k-th page,
\* the pages it mapped before are unmapped again before it returns: after the
\* failed call every address answers QueryVaddr as before the call (no page
\* installed by the call is present, every mapping that existed is
\* unchanged), and the error returned is that of the failing AddMapping:
\* AlreadyExists when the k-th page was mapped before the call, OutOfMemory
\* (of a failed table allocation) otherwise.
C22_MapPagesUndo ==
    MapPagesFailed =>
        /\ \A a \in Addrs : SameAnswer(last.pre_mem, mem, a)
        /\ Cardinality(Events("undo")) <= 1
        /\ PagesMappedBeforeFailure < last.count
        /\ IF Mapped(last.pre_mem, last.vaddr + PagesMappedBeforeFailure * PAGE_SIZE)
           THEN last.status = ZX_ERR_ALREADY_EXISTS
           ELSE last.status = ZX_ERR_NO_MEMORY /\ AllocFailed

\* C22 witness: a MapPages that had mapped a page when the table allocation
\* for its next page failed, on a tree with mappings.
C22_Witness ==
    /\ MapPagesFailed
    /\ PagesMappedBeforeFailure > 0
    /\ last.status = ZX_ERR_NO_MEMORY
    /\ \E a \in Addrs : Mapped(last.pre_mem, a)

\* The first virtual address an entry of the shape covers, from its path.
RECURSIVE PathVaddr(_, _)
PathVaddr(path, level) ==
    IF path = <<>> THEN 0
    ELSE Head(path) * page_size(level) + PathVaddr(Tail(path), lower_level(level))

EntryVaddr(e) == PathVaddr(e.path, top_level)

\* C23: in every reachable state, every present entry with the large bit set
\* is at a level where supports_large(level) holds, and both the virtual
\* address it covers and the physical frame it holds are aligned to
\* page_size(level): the frame field is the frame of the level, and
\* QueryVaddr of the entry's first address returns it.
C23_LargeEntriesAligned ==
    \A e \in Shape(mem) :
        IS_LARGE_PAGE(e.pte) =>
            /\ EntryLevel(e) # PT_L
            /\ supports_page_size(EntryLevel(e))
            /\ page_aligned(EntryLevel(e), EntryVaddr(e))
            /\ page_aligned(EntryLevel(e), e.pte.addr)
            /\ paddr_from_pte(EntryLevel(e), e.pte) = e.pte.addr
            /\ QueryVaddr(mem, EntryVaddr(e)).paddr = e.pte.addr

\* C23 witness: after a ProtectPages that split a PDP large page installed
\* by AddMapping, the tree holds a PD large page made by SplitLargePage and a
\* large page that UpdateMapping rewrote.
C23_Witness ==
    /\ Returned("ProtectPages", ZX_OK)
    /\ \E i \in Events("split") : last.trace[i].level = PDP_L
    /\ \E e \in Shape(mem) :
          /\ IS_LARGE_PAGE(e.pte) /\ EntryLevel(e) = PD_L
          /\ EntryVaddr(e) \in Range
          /\ e.pte \notin {f.pte : f \in Shape(last.pre_mem)}
    /\ \E e \in Shape(mem) :
          /\ IS_LARGE_PAGE(e.pte) /\ EntryLevel(e) = PD_L
          /\ EntryVaddr(e) \notin Range

\* The DEBUG_ASSERT(result.size == 0) of the four top-level calls and of the
\* two rollback paths.
ResultSizeAsserts ==
    {"UnmapPages:result.size==0", "MapPagesContiguous:result.size==0",
     "MapPages:result.size==0", "ProtectPages:result.size==0",
     "AddMapping:abort:result.size==0", "MapPages:undo:result.size==0"}

\* The last call was made on a page-aligned range inside the address space.
RangeInAspace ==
    /\ ApiCall
    /\ IS_PAGE_ALIGNED(last.vaddr)
    /\ check_vaddr(last.vaddr)
    /\ last.vaddr + last.count * PAGE_SIZE <= AspaceSize

\* C24: for every top-level call on a page-aligned range inside the address
\* space, the residual cursor has size 0 when the walker returns success:
\* none of the assertions DEBUG_ASSERT(result.size == 0) of UnmapPages,
\* MapPages, MapPagesContiguous, ProtectPages, the AddMapping abort and the
\* MapPages undo fails, and a call that returns OK leaves no residual size.
C24_CursorDrains ==
    RangeInAspace =>
        /\ last.asserts \cap ResultSizeAsserts = {}
        /\ last.status = ZX_OK => last.size = 0

\* C24 witness: a MapPagesContiguous that had mapped part of its range when it
\* met a mapping, and whose abort auto-call ran RemoveMapping.
C24_Witness ==
    /\ RangeInAspace
    /\ Returned("MapPagesContiguous", ZX_ERR_ALREADY_EXISTS)
    /\ Events("abort") # {}
    /\ Events("free") # {}

\* The calls of RemoveMapping made by the last call, the return of each, and
\* the stores of the last call that clear an entry.
RemoveCalls == {i \in Events("call") : last.trace[i].fn = "RemoveMapping"}

RemoveReturn(i) ==
    CHOOSE j \in Events("ret") :
        /\ j > i
        /\ Cardinality({k \in RemoveCalls : i < k /\ k < j})
             = Cardinality({k \in Events("ret") : i < k /\ k < j})
        /\ \A j2 \in Events("ret") :
              (j2 > i /\ j2 < j) =>
                  Cardinality({k \in RemoveCalls : i < k /\ k < j2})
                    # Cardinality({k \in Events("ret") : i < k /\ k < j2})

ClearedDuring(i) ==
    {k \in Events("store") : /\ i < k
                             /\ k < RemoveReturn(i)
                             /\ ~last.trace[k].new}

\* C25 (as stated): RemoveMapping returns unmapped = true if and only if at
\* least one PTE was cleared at this level or at any level below it during
\* the call.
C25_UnmappedIffCleared ==
    \A i \in RemoveCalls :
        last.trace[RemoveReturn(i)].unmapped <=> ClearedDuring(i) # {}

\* C25 (amended): RemoveMapping returns unmapped = true if and only if the
\* call cleared at least one entry of its own table: a page at PT level, a
\* large page, or the entry of a lower table that the call released.  The
\* result of the recursion is used for the empty-table scan only and is not
\* passed up.
C25_UnmappedIffClearedAtThisLevel ==
    \A i \in RemoveCalls :
        last.trace[RemoveReturn(i)].unmapped <=>
            \E k \in ClearedDuring(i) : last.trace[k].table = last.trace[i].table

\* C25 witness: a RemoveMapping above PT level whose recursion cleared a page
\* and left the lower table populated, and which returned false.
C25_Witness ==
    \E i \in RemoveCalls :
        /\ last.trace[i].level # PT_L
        /\ last.trace[i].table # NULL
        /\ ClearedDuring(i) # {}
        /\ ~last.trace[RemoveReturn(i)].unmapped

\* C26: RemoveMapping frees a sub-table only when all N entries of that
\* sub-table are absent: whenever the fast path (cursor aligned to
\* page_size(level) and cursor.size >= page_size(level) before the recursion)
\* decides to free, the sub-table is a table and a scan of it after the
\* recursion finds no present entry.
C26_FastPathAgreesWithScan ==
    \A i \in Events("release") :
        /\ last.trace[i].table # NULL
        /\ last.trace[i].empty

\* C26 with the calls in which a split failed inside RemoveMapping set aside.
C26_FastPathAgreesWithScanUnlessSplitFails ==
    Events("splitfail") = {} =>
        \A i \in Events("release") :
            /\ last.trace[i].table # NULL
            /\ last.trace[i].empty

\* C26 witness: the fast path released a table that held a page when the
\* call began.
C26_Witness ==
    \E i \in Events("release") :
        /\ last.trace[i].fast
        /\ last.trace[i].table # NULL
        /\ ~TableIsEmpty([mem |-> last.pre_mem], last.trace[i].table)

\* The free at position i of the trace comes after the store that cleared the
\* entry that referenced the table, and after the TLB invalidation of that
\* store.
FreedAfterCleared(i) ==
    \E k \in Events("store") :
        /\ k < i
        /\ ~last.trace[k].new
        /\ last.trace[k].old
        /\ last.trace[k].oldtable = last.trace[i].table
        /\ \E t \in Events("tlb") :
              /\ k < t
              /\ t < i
              /\ last.trace[t].level = last.trace[k].level
              /\ last.trace[t].vaddr = last.trace[k].vaddr
              /\ ~last.trace[t].term

\* C27: in every reachable state, every present non-terminal entry references
\* a table frame that was allocated by this address space and has not been
\* freed; a table frame is freed only after the parent entry that referenced
\* it has been cleared and its TLB invalidation issued; and no frame is freed
\* twice (the frame freed is an allocated table when it is freed).
C27_TablesOwnedAndFreedOnce ==
    ~halted =>
        /\ InterTables(mem) \subseteq (mmu \ {ROOT, NULL})
        /\ \A i \in Events("free") : FreedAfterCleared(i)
        /\ last.asserts \cap {"RemoveMapping:page",
                              "RemoveMapping:page->state==MMU"} = {}

\* C27 with the calls in which a split failed set aside.
C27_TablesOwnedAndFreedOnceUnlessSplitFails ==
    (~halted /\ Events("splitfail") = {}) =>
        /\ InterTables(mem) \subseteq (mmu \ {ROOT, NULL})
        /\ \A i \in Events("free") : FreedAfterCleared(i)
        /\ last.asserts \cap {"RemoveMapping:page",
                              "RemoveMapping:page->state==MMU"} = {}

\* C27 witness: a call freed a table and left other tables in the tree.
C27_Witness ==
    /\ ~halted
    /\ Events("free") # {}
    /\ Events("splitfail") = {}
    /\ InterTables(mem) # {}

\* The TLB invalidation of the store at position k of the trace: it follows
\* the store with nothing but cache-line flushes in between.
InvalidationOf(k) ==
    {t \in Events("tlb") :
        /\ t > k
        /\ last.trace[t].level = last.trace[k].level
        /\ last.trace[t].vaddr = last.trace[k].vaddr
        /\ \A j \in (k + 1)..(t - 1) : last.trace[j].ev = "clflush"}

\* The allocation of the table of the split at position i of the trace.
SplitAlloc(i) ==
    CHOOSE a \in Events("alloc") :
        /\ a < i
        /\ last.trace[a].table = last.trace[i].table
        /\ \A b \in Events("alloc") :
              (b < i /\ last.trace[b].table = last.trace[i].table) => b <= a

\* C28: a TLB invalidation is issued for a PTE store exactly when the value
\* overwritten was present: every store over a present entry is followed by
\* its invalidation, every invalidation follows such a store, a successful
\* Map issues no invalidation at all, and in SplitLargePage the stores that
\* populate the new table issue none while the store that replaces the large
\* entry by the intermediate entry issues exactly one, with was_terminal true.
C28_InvalidateIffPresent ==
    /\ \A k \in Events("store") : last.trace[k].old <=> InvalidationOf(k) # {}
    /\ \A t \in Events("tlb") :
          \E k \in Events("store") : last.trace[k].old /\ t \in InvalidationOf(k)
    /\ (\/ Returned("MapPages", ZX_OK)
        \/ Returned("MapPagesContiguous", ZX_OK)) => Events("tlb") = {}
    /\ \A i \in Events("split") :
          /\ \A k \in Events("store") :
                (SplitAlloc(i) < k /\ k < i
                   /\ last.trace[k].table = last.trace[i].table) =>
                    ~last.trace[k].old
          /\ \E t \in Events("tlb") :
                /\ {u \in Events("tlb") : SplitAlloc(i) < u /\ u < i} = {t}
                /\ last.trace[t].term
                /\ last.trace[t].level = last.trace[i].level
                /\ last.trace[t].vaddr = last.trace[i].vaddr

\* C28 witness: a call split a large page, wrote absent entries and
\* overwrote present ones.
C28_Witness ==
    /\ Events("split") # {}
    /\ \E k \in Events("store") : ~last.trace[k].old /\ last.trace[k].level = PT_L
    /\ \E k \in Events("store") : last.trace[k].old /\ last.trace[k].level = PT_L

\* C28 witness of the Map case: a Map that wrote several entries returned OK.
C28_MapWitness ==
    /\ Returned("MapPagesContiguous", ZX_OK)
    /\ Cardinality(Events("store")) > 1

\* Every PTE store of the log is followed by the flush of its cache line.
AllFlushed(log) ==
    \A k \in DOMAIN log :
        log[k].ev = "store" =>
            \E j \in DOMAIN log :
                /\ j > k
                /\ log[j].ev = "clflush"
                /\ log[j].line = LineOf(log[k].table, log[k].index)

\* The TLB invalidations and cache-line flushes of thread t are issued in
\* this step.
IssuesFlushes(t) ==
    /\ thr[t].log = <<>>
    /\ \E k \in DOMAIN thr'[t].log : thr'[t].log[k].ev \in {"tlb", "clflush"}

\* C29: every tlb_invalidate and every cache-line flush caused by a top-level
\* call happens while that call holds the address-space lock; and when the
\* lock is about to be released, in an address space with needs_cache_flushes,
\* no cache line holding a PTE written by the call is still unflushed.
C29_FlushesUnderLock ==
    /\ [][\A t \in Threads : IssuesFlushes(t) => (lock_ = t /\ lock_' = t)]_vars
    /\ [](\A t \in Threads :
             (thr[t].pc = "unlock" /\ flushes) => AllFlushed(thr[t].log))

\* C29 witness: in a flushing address space a call that wrote entries in
\* several tables and invalidated the TLB is about to release the lock.
C29_Witness ==
    \E t \in Threads :
        /\ thr[t].pc = "unlock"
        /\ lock_ = t
        /\ flushes
        /\ \E k \in DOMAIN thr[t].log : thr[t].log[k].ev = "tlb"
        /\ Cardinality({thr[t].log[k].line :
                          k \in {j \in DOMAIN thr[t].log :
                                   thr[t].log[j].ev = "clflush"}}) > 1

\* The stores and the cache-line flushes made through the flusher f, and the
\* store of f that follows the store at position k (0 when none does).
FlusherStores(f) == {k \in Events("store") : last.trace[k].id = f}

FlusherFlushes(f) == {j \in Events("clflush") : last.trace[j].id = f}

NextFlusherStore(k) ==
    IF \E k2 \in FlusherStores(last.trace[k].id) : k2 > k
    THEN CHOOSE k2 \in FlusherStores(last.trace[k].id) :
            /\ k2 > k
            /\ \A k3 \in FlusherStores(last.trace[k].id) : k3 > k => k2 <= k3
    ELSE 0

StoreLine(k) == LineOf(last.trace[k].table, last.trace[k].index)

\* The store at position k is followed, through the same flusher, by a store
\* to an absent entry of the same cache line.
RunGoesOn(k) ==
    /\ NextFlusherStore(k) # 0
    /\ StoreLine(NextFlusherStore(k)) = StoreLine(k)
    /\ ~last.trace[NextFlusherStore(k)].old

\* The last store of the run of stores to absent entries of one cache line
\* that the store at position k is part of.
RECURSIVE RunEnd(_)
RunEnd(k) == IF RunGoesOn(k) THEN RunEnd(NextFlusherStore(k)) ELSE k

\* The position up to which the flushes of the run of k are counted: the
\* second store through the flusher after the run, or the end of the trace.
RunWindow(k) ==
    LET n == NextFlusherStore(RunEnd(k))
    IN IF n = 0 \/ NextFlusherStore(n) = 0
       THEN Len(last.trace) + 1
       ELSE NextFlusherStore(n)

\* The flushes of the line of the store at k made through its flusher after
\* the store and before RunWindow(k).
RunFlushes(k) ==
    {j \in FlusherFlushes(last.trace[k].id) :
        /\ k < j
        /\ j < RunWindow(k)
        /\ last.trace[j].line = StoreLine(k)}

\* C30: a CacheLineFlusher holds at most one dirty line.  In an address space
\* with needs_cache_flushes, for every store to an absent entry: as long as
\* the stores that follow through the same flusher are to absent entries of
\* the same cache line no clflush of the line is issued, and the run causes
\* exactly one clflush of the line; when the store after the run is in another
\* line, the first clflush issued after that store is the flush of the line of
\* the run (the previous line is flushed first).
C30_OneDirtyLine ==
    flushes =>
        \A k \in Events("store") :
            ~last.trace[k].old =>
                /\ Cardinality(RunFlushes(k)) = 1
                /\ \A j \in RunFlushes(k) : j > RunEnd(k)
                /\ \A n \in {NextFlusherStore(RunEnd(k))} \ {0} :
                      StoreLine(n) # StoreLine(k) =>
                          \A j \in RunFlushes(k) :
                              /\ j > n
                              /\ \A j2 \in FlusherFlushes(last.trace[k].id) :
                                    j2 > n => j <= j2

\* C30 witness: in a flushing address space one flusher made two stores to
\* absent entries of one cache line and then a store in another line.
C30_Witness ==
    /\ flushes
    /\ \E k \in Events("store") :
          /\ ~last.trace[k].old
          /\ NextFlusherStore(k) # 0
          /\ ~last.trace[NextFlusherStore(k)].old
          /\ StoreLine(NextFlusherStore(k)) = StoreLine(k)
          /\ NextFlusherStore(NextFlusherStore(k)) # 0
          /\ StoreLine(NextFlusherStore(NextFlusherStore(k))) # StoreLine(k)

\* The last call as a request, and whether it went on to take the lock.
LastCall ==
    [op |-> last.op, vaddr |-> last.vaddr, count |-> last.count, phys |-> last.phys,
     mmu_flags |-> last.mmu_flags]

TookLock == ApiCall /\ BeforeLock(LastCall) = "none"

\* The last call made again on the tables it found, with the same allocations
\* failing, in an address space where needs_cache_flushes() is `flag`.
Rerun(flag) ==
    UnderLock(LastCall,
              [mem |-> last.pre_mem, mmu |-> last.pre_mmu, pages |-> last.pre_pages,
               fails |-> last.fails, nalloc |-> 0, clf |-> <<>>, trace |-> <<>>,
               asserts |-> {}, nullcall |-> FALSE, nullderef |-> FALSE,
               flushes |-> flag, frames |-> <<>>, maxiters |-> 0,
     cursors |-> {}]).m

\* The PTE stores and TLB invalidations of a trace, in order, without the
\* flusher they went through.
StoresAndInvalidations(trace) ==
    LET hw == SelectSeq(trace, LAMBDA e : e.ev \in {"store", "tlb"})
    IN [i \in DOMAIN hw |-> IF hw[i].ev = "store" THEN [hw[i] EXCEPT !.id = 0]
                            ELSE hw[i]]

\* C31: in an address space where needs_cache_flushes() is false no clflush
\* is ever issued, while the PTE stores and the TLB invalidations of every
\* call, and the tables and pages_ it leaves, are those of the same call made
\* on the same tables in an address space where it is true.
C31_FlushSwitch ==
    /\ ~flushes => Events("clflush") = {}
    /\ TookLock =>
          \A with \in {Rerun(TRUE)}, without \in {Rerun(FALSE)} :
              /\ last.trace = (IF flushes THEN with.trace ELSE without.trace)
              /\ \A i \in DOMAIN without.trace : without.trace[i].ev # "clflush"
              /\ StoresAndInvalidations(without.trace)
                   = StoresAndInvalidations(with.trace)
              /\ without.mem = with.mem
              /\ without.mmu = with.mmu
              /\ without.pages = with.pages

\* C31 witness: a call in an address space without cache flushes that split a
\* large page and overwrote present entries; with cache flushes the same call
\* flushes several lines.
C31_Witness ==
    /\ ~flushes
    /\ TookLock
    /\ Events("split") # {}
    /\ Events("tlb") # {}
    /\ \E with \in {Rerun(TRUE)} :
          Cardinality({i \in DOMAIN with.trace : with.trace[i].ev = "clflush"}) > 1

\* The large pages of the tree `tables` that the range of the last call
\* covers whole, and those it covers only in part.
LargePagesOf(tables) == {e \in Shape(tables) : IS_LARGE_PAGE(e.pte)}

CoveredWhole(e) ==
    /\ last.vaddr <= EntryVaddr(e)
    /\ EntryVaddr(e) + page_size(EntryLevel(e)) <= last.vaddr + last.count * PAGE_SIZE

CoveredInPart(e) ==
    /\ ~CoveredWhole(e)
    /\ \E a \in Range :
          EntryVaddr(e) <= a /\ a < EntryVaddr(e) + page_size(EntryLevel(e))

\* The large page e of the tree before the last call was rewritten in place.
RewrittenInPlace(e) ==
    /\ \E f \in Shape(mem) :
          /\ f.path = e.path
          /\ f.terminal
          /\ f.pte = [p |-> TRUE, ps |-> TRUE,
                      bits |-> terminal_flags(EntryLevel(e), last.mmu_flags).bits,
                      addr |-> e.pte.addr]
    /\ \E t \in Events("tlb") :
          /\ last.trace[t].level = EntryLevel(e)
          /\ last.trace[t].vaddr = EntryVaddr(e)
          /\ last.trace[t].term
    /\ \A i \in Events("split") :
          ~(last.trace[i].level = EntryLevel(e) /\ last.trace[i].vaddr = EntryVaddr(e))

\* C32: when ProtectPages covers a whole large page, the entry is rewritten in
\* place: it stays a large terminal entry at the same level with the same
\* frame and the flags terminal_flags(level, mmu_flags), the TLB invalidation
\* is issued with was_terminal = true, the page is not split, and a call that
\* covers no large page in part allocates no table.
C32_ProtectWholeLargePage ==
    Returned("ProtectPages", ZX_OK) =>
        /\ \A e \in LargePagesOf(last.pre_mem) : CoveredWhole(e) => RewrittenInPlace(e)
        /\ (\A e \in LargePagesOf(last.pre_mem) : ~CoveredInPart(e)) =>
              Events("alloc") = {}

\* C32 with the calls in which a split failed set aside.
C32_ProtectWholeLargePageUnlessSplitFails ==
    (Returned("ProtectPages", ZX_OK) /\ Events("splitfail") = {}) =>
        /\ \A e \in LargePagesOf(last.pre_mem) : CoveredWhole(e) => RewrittenInPlace(e)
        /\ (\A e \in LargePagesOf(last.pre_mem) : ~CoveredInPart(e)) =>
              Events("alloc") = {}

\* C32 witness: a ProtectPages that covered a whole large page and changed its
\* flags.
C32_Witness ==
    /\ Returned("ProtectPages", ZX_OK)
    /\ \E e \in LargePagesOf(last.pre_mem) :
          /\ CoveredWhole(e)
          /\ e.pte.bits # terminal_flags(EntryLevel(e), last.mmu_flags).bits

\* The part of the range of the last call that AddMapping had mapped when it
\* failed: from the first address of the request, the size of the request
\* less the residual size.
MappedBeforeFailure ==
    {a \in Range : a < last.vaddr + (last.count * PAGE_SIZE - last.size)}

\* C33: the rollback of a failed AddMapping runs only in the frame whose level
\* is top_level() and at most once per AddMapping call: the frames below the
\* top unmap nothing (nothing is cleared and RemoveMapping is not entered
\* before the rollback of the top frame or the undo of MapPages begins), and
\* the rollback unmaps exactly [start.vaddr, start.vaddr + (start.size -
\* residual size)): RemoveMapping is given that range, no address of it is
\* mapped afterwards, and every other address answers as before the call.
C33_RollbackAtTopOnly ==
    (last.op \in {"MapPages", "MapPagesContiguous"} /\ ~last.panic) =>
        /\ \A i \in Events("abort") :
              /\ last.trace[i].level = top_level
              /\ last.trace[i + 1].ev = "call"
              /\ last.trace[i + 1].fn = "RemoveMapping"
              /\ last.trace[i + 1].table = ROOT
              /\ last.trace[i + 1].level = top_level
              /\ last.trace[i + 1].vaddr = last.trace[i].vaddr
              /\ last.trace[i + 1].size = last.trace[i].size
        /\ \A i, j \in Events("abort") :
              i < j => \E c \in Events("call") :
                          /\ i < c /\ c < j
                          /\ last.trace[c].fn = "AddMapping"
                          /\ last.trace[c].level = top_level
        /\ \A k \in Events("store") \cup RemoveCalls :
              (last.trace[k].ev = "call" \/ ~last.trace[k].new) =>
                  \E i \in Events("abort") \cup Events("undo") : i < k
        /\ (last.op = "MapPagesContiguous" /\ TookLock /\ last.status # ZX_OK) =>
              /\ Cardinality(Events("abort")) <= 1
              /\ Events("abort") # {} <=> MappedBeforeFailure # {}
              /\ \A i \in Events("abort") :
                    /\ last.trace[i].vaddr = last.vaddr
                    /\ last.trace[i].size = last.count * PAGE_SIZE - last.size
              /\ \A a \in MappedBeforeFailure : ~Mapped(mem, a)
              /\ \A a \in Addrs \ MappedBeforeFailure : SameAnswer(last.pre_mem, mem, a)

\* C33 witness: a MapPagesContiguous failed in a frame below the top after it
\* had mapped pages in more than one table, and the top frame rolled back.
C33_Witness ==
    /\ Returned("MapPagesContiguous", ZX_ERR_NO_MEMORY)
    /\ Events("abort") # {}
    /\ Cardinality(MappedBeforeFailure) > PAGE_SIZE
    /\ Cardinality({last.trace[k].table : k \in Events("store")}) > 2

\* C34: a SplitLargePage that fails with ZX_ERR_NO_MEMORY changes nothing: the
\* large entry, every table, the frames in use and pages_ are as they were
\* when it was entered, and between its entry and its return nothing happens
\* but the allocation that failed (no store, no flush, no TLB invalidation).
\* A SplitLargePage that succeeds increments pages_ by exactly one and leaves,
\* where the large entry was, a present entry that is not large and points at
\* the table it allocated; no other entry of an existing table changes.
C34_SplitAllOrNothing ==
    /\ \A i \in Events("splitfail") :
          LET e == last.trace[i]
          IN /\ e.after = e.before
             /\ e.mmu_after = e.mmu_before
             /\ e.pages_after = e.pages_before
             /\ e.after[e.parent][e.index] = e.pte
             /\ IS_PAGE_PRESENT(e.pte) /\ IS_LARGE_PAGE(e.pte)
             /\ i = e.from + 2
             /\ last.trace[e.from + 1].ev = "alloc"
             /\ last.trace[e.from + 1].table = NULL
    /\ \A i \in Events("split") :
          LET e == last.trace[i]
          IN /\ e.pages_after = e.pages_before + 1
             /\ e.mmu_after = e.mmu_before \cup {e.table}
             /\ e.table \notin e.mmu_before
             /\ IS_PAGE_PRESENT(e.pte) /\ IS_LARGE_PAGE(e.pte)
             /\ e.before[e.parent][e.index] = e.pte
             /\ IS_PAGE_PRESENT(e.after[e.parent][e.index])
             /\ ~IS_LARGE_PAGE(e.after[e.parent][e.index])
             /\ get_next_table_from_entry(e.after[e.parent][e.index]) = e.table
             /\ \A t \in DOMAIN e.before, k \in 0..(NO_OF_PT_ENTRIES - 1) :
                   (t # e.table /\ <<t, k>> # <<e.parent, e.index>>) =>
                       e.after[t][k] = e.before[t][k]

\* C34 witness: in one call a large page was split and the split of another
\* failed for want of memory.
C34_Witness ==
    /\ Events("split") # {}
    /\ Events("splitfail") # {}
    /\ \E i \in Events("splitfail") : last.trace[i].pages_before > 1

\* C35: QueryVaddr is read-only.  In every step that a thread takes inside a
\* QueryVaddr call, from the taking of the lock to its release, no entry of
\* any table changes, pages_ does not change and no table is allocated or
\* freed; the call issues no store, no cache-line flush and no TLB
\* invalidation; and it returns ZX_OK or ZX_ERR_NOT_FOUND.
C35_QueryVaddrReadOnly ==
    [][\A t \in Threads :
          (thr[t].call.op = "QueryVaddr" /\ thr[t].pc # "idle" /\ thr'[t] # thr[t]) =>
              /\ mem' = mem
              /\ mmu' = mmu
              /\ pages_' = pages_
              /\ thr'[t].log = <<>>
              /\ thr'[t].pc = "unlock" =>
                    thr'[t].ret.status \in {ZX_OK, ZX_ERR_NOT_FOUND}]_vars

\* C35 witness: a QueryVaddr that found a page has just finished under the
\* lock, and the other thread has had ZX_ERR_NOT_FOUND from a QueryVaddr.
C35_Witness ==
    \E t, u \in Threads :
        /\ t # u
        /\ thr[t].call.op = "QueryVaddr"
        /\ thr[t].pc = "unlock"
        /\ thr[t].ret.status = ZX_OK
        /\ thr[u].call.op = "QueryVaddr"
        /\ thr[u].pc = "idle"
        /\ thr[u].ret.status = ZX_ERR_NOT_FOUND
        /\ pages_ > 0

\* The number of levels of the page table.
NumLevels == Cardinality(PT_L..top_level)

\* The walkers of the last call came to an end within their bounds: every
\* frame that was entered has returned, no loop began more than
\* NO_OF_PT_ENTRIES iterations in one frame (one table), and no walker was
\* ever on the stack more than NumLevels times.
WalkersBounded ==
    /\ last.frames = <<>>
    /\ last.maxiters <= NO_OF_PT_ENTRIES
    /\ \A i \in Events("call") : last.trace[i].depth <= NumLevels

\* The last call did what was asked of the whole range.  ProtectPages unmaps
\* a large page that it can not split (lines 653-664), so that a page of its
\* range is left with the new flags or is left unmapped.
Completed ==
    \A a \in Range :
        /\ last.op = "UnmapPages" => ~Mapped(mem, a)
        /\ last.op \in {"MapPages", "MapPagesContiguous"} => Mapped(mem, a)
        /\ last.op = "ProtectPages" =>
              /\ Mapped(mem, a) => Mapped(last.pre_mem, a)
              /\ (Mapped(last.pre_mem, a) /\ Events("splitfail") = {}) => Mapped(mem, a)
              /\ Mapped(mem, a) => QueryVaddr(mem, a).mmu_flags = last.mmu_flags

\* The last call left every address answering as before it.
RolledBack == \A a \in Addrs : SameAnswer(last.pre_mem, mem, a)

\* C36: every top-level call terminates: each walker loop runs at most
\* NO_OF_PT_ENTRIES iterations per table, no walker recurses deeper than the
\* number of levels, every frame returns, and the call returns (it does not
\* panic) having either completed (status ZX_OK, the whole range done) or
\* rolled back (an error status, every address answering as before).
C36_TerminatesCompleteOrRolledBack ==
    (last.op # "none") =>
        /\ WalkersBounded
        /\ ~last.panic
        /\ TookLock =>
              IF last.status = ZX_OK THEN Completed ELSE RolledBack

\* C36 for the calls in which no SplitLargePage failed.
C36_TerminatesUnlessSplitFails ==
    (last.op # "none" /\ Events("splitfail") = {}) =>
        /\ WalkersBounded
        /\ ~last.panic
        /\ TookLock =>
              IF last.status = ZX_OK THEN Completed ELSE RolledBack

\* C36, the bounds alone, for every call.
C36_WalkersBounded == WalkersBounded

\* C36 witness: a call that failed and rolled back after its walkers had gone
\* down to the last level, a loop having run over a whole table.
C36_Witness ==
    /\ TookLock
    /\ last.status # ZX_OK
    /\ ~last.panic
    /\ RolledBack
    /\ last.maxiters = NO_OF_PT_ENTRIES
    /\ \E i \in Events("call") : last.trace[i].depth = NumLevels
    /\ Events("abort") # {}

\* MapPagesContiguous(vaddr, phys[1], count, mmu_flags) made under the lock on
\* the tables the last call found, every allocation succeeding.
ContiguousInstead ==
    UnderLock([op |-> "MapPagesContiguous", vaddr |-> last.vaddr,
               count |-> last.count, phys |-> <<last.phys[1]>>,
               mmu_flags |-> last.mmu_flags],
              [mem |-> last.pre_mem, mmu |-> last.pre_mmu, pages |-> last.pre_pages,
               fails |-> {}, nalloc |-> 0, clf |-> <<>>, trace |-> <<>>,
               asserts |-> {}, nullcall |-> FALSE, nullderef |-> FALSE,
               flushes |-> flushes, frames |-> <<>>, maxiters |-> 0,
     cursors |-> {}])

\* The last call was a MapPages of the list [p, p + PAGE_SIZE, ...] in which
\* no allocation failed.
MapPagesOfARun ==
    /\ last.op = "MapPages"
    /\ TookLock
    /\ ~last.panic
    /\ last.fails = {}
    /\ last.phys = PhysList(last.phys[1], last.count, "up")

OutermostCall(i) ==
    CHOOSE j \in Events("call") :
        /\ j <= i
        /\ last.trace[j].fn = last.trace[i].fn
        /\ last.trace[j].depth = 1
        /\ \A k \in Events("call") :
              (j < k /\ k <= i /\ last.trace[k].fn = last.trace[i].fn) =>
                  last.trace[k].depth > 1

CursorSizeAsserts ==
    {fn \o ":new_cursor->size<=start_cursor.size" :
        fn \in {"RemoveMapping", "RemoveMappingL0", "AddMapping", "AddMappingL0",
                "UpdateMapping", "UpdateMappingL0"}}

\* C38: the cursor only moves forward and keeps its end point.  For every
\* value the cursor of a walker frame takes: its size is not above the size
\* the frame started from and has not gone below zero, and every
\* DEBUG_ASSERT(new_cursor->size <= start_cursor.size) holds; its vaddr is not
\* below the one the frame started from; vaddr + size equals that of the
\* start; and in AddMapping paddr - vaddr is that of the start.  Every frame
\* of a walker starts from a cursor with the end point (and, in AddMapping,
\* the paddr - vaddr) of the request the walker was entered with.
C38_CursorForwardToFixedEnd ==
    /\ last.asserts \cap CursorSizeAsserts = {}
    /\ \A c \in last.cursors :
          /\ c.new.size >= 0
          /\ c.new.size <= c.start.size
          /\ c.new.vaddr >= c.start.vaddr
          /\ c.new.vaddr + c.new.size = c.start.vaddr + c.start.size
          /\ c.fn = "AddMapping" =>
                c.new.paddr - c.new.vaddr = c.start.paddr - c.start.vaddr
    /\ \A i \in Events("call") :
          /\ last.trace[i].vaddr + last.trace[i].size =
                last.trace[OutermostCall(i)].vaddr + last.trace[OutermostCall(i)].size
          /\ last.trace[i].size <= last.trace[OutermostCall(i)].size
          /\ \E c \in last.cursors :
                /\ c.fn = last.trace[i].fn /\ c.level = last.trace[i].level
                /\ c.start.vaddr = last.trace[i].vaddr
                /\ c.start.size = last.trace[i].size
    /\ \A c \in last.cursors :
          (c.fn = "AddMapping" /\ last.op = "MapPagesContiguous") =>
              c.start.paddr - c.start.vaddr = last.phys[1] - last.vaddr

\* C38 witness: a walker skipped an absent entry from the middle of it, with
\* less than the rest of the entry left to do, and did pages in a lower table.
C38_Witness ==
    /\ TookLock /\ ~last.panic
    /\ \E c \in last.cursors :
          /\ c.level > PT_L
          /\ ~page_aligned(c.level, c.start.vaddr)
          /\ c.new.size = 0
          /\ c.new.vaddr < c.start.vaddr + (page_size(c.level)
                                             - (c.start.vaddr % page_size(c.level)))
    /\ \E c \in last.cursors :
          c.level = PT_L /\ c.new.size < c.start.size /\ c.new.size > 0

AlignedResidueAsserts ==
    {"RemoveMapping:size==0||page_aligned", "UpdateMapping:size==0||page_aligned",
     "UpdateMappingL0:size==0||page_aligned"}

\* The cursors that the recursions of RemoveMapping and UpdateMapping came
\* back with: those with which a frame of the walker returned to a frame of
\* the same walker, one level up.
Residues ==
    {c \in last.cursors : /\ c.fn \in {"RemoveMapping", "UpdateMapping"}
                          /\ c.at = "return"
                          /\ c.depth > 1}

\* C39: after each recursion in RemoveMapping and UpdateMapping the residual
\* size is zero or the vaddr is aligned to the page size of the level of the
\* frame that recursed, and the DEBUG_ASSERT(new_cursor->size == 0 ||
\* page_aligned(level, new_cursor->vaddr)) of RemoveMapping, UpdateMapping and
\* UpdateMappingL0 holds, in every call (every request is page-aligned).
C39_ResidueAligned ==
    /\ last.asserts \cap AlignedResidueAsserts = {}
    /\ \A c \in Residues :
          c.new.size = 0 \/ page_aligned(c.level + 1, c.new.vaddr)
    /\ \A c \in last.cursors :
          (c.fn = "UpdateMapping" /\ c.level = PT_L /\ c.at = "return") =>
              (c.new.size = 0 \/ page_aligned(PT_L, c.new.vaddr))

\* C39 for the calls in which no SplitLargePage failed.
C39_ResidueAlignedUnlessSplitFails ==
    Events("splitfail") = {} =>
        /\ last.asserts \cap AlignedResidueAsserts = {}
        /\ \A c \in Residues :
              c.new.size = 0 \/ page_aligned(c.level + 1, c.new.vaddr)

\* A call in which no SplitLargePage failed and a recursion of RemoveMapping
\* or of UpdateMapping came back with part of the request left, from a
\* request that began in the middle of an entry.
C39_ResidueLeft ==
    /\ TookLock /\ ~last.panic
    /\ Events("splitfail") = {}
    /\ \E c \in Residues :
          c.new.size > 0 /\ ~page_aligned(c.level + 1, c.start.vaddr)

====
